---- MODULE Spec2Model ----
(***************************************************************************)
(* Bounding volumes of hgl::math (AABB, OBB, BoundingSphere,               *)
(* BoundingVolumes, BoundingVolumesData) as a state machine.               *)
(*                                                                         *)
(* Numbers.  A float is modelled as a fixed-point integer: the float 1.0f  *)
(* is One grid steps.  Every input coordinate is a multiple of One, and a   *)
(* merge of OBBs is made only where its halvings give grid numbers, so the *)
(* halvings of the boxes (/2.0f, *0.5f) are exact on the states reached;   *)
(* rounding of float addition is not modelled, and the square root and the *)
(* ratios of the sphere are rounded to the grid.  Directions (face         *)
(* normals, OBB axes) are plain integers, 1 standing for 1.0f.  A product  *)
(* of two lengths (a squared length) is in squared grid steps and is only  *)
(* ever compared with another squared length.                              *)
(***************************************************************************)
EXTENDS Integers, Sequences, FiniteSets, TLC

\* ------------------------------------------------------------------ bounds
\* Input x coordinates are One*i with i in 0..MaxX.
MaxX == 2
\* Largest number of points in a buffer handed to SetFromPoints.
MaxCount == 2

\* The float 1.0f in grid steps.
One == 2

\* ----------------------------------------------------------------- vectors
Zero3 == <<0, 0, 0>>
One3 == <<One, One, One>>

Abs(x) == IF x < 0 THEN -x ELSE x
Min2(x, y) == IF x < y THEN x ELSE y
Max2(x, y) == IF x < y THEN y ELSE x

\* x/2.0f and x*0.5f
Half(x) == x \div 2

VAdd(u, v) == <<u[1] + v[1], u[2] + v[2], u[3] + v[3]>>
VSub(u, v) == <<u[1] - v[1], u[2] - v[2], u[3] - v[3]>>
VNeg(u) == <<-u[1], -u[2], -u[3]>>
VHalf(u) == <<Half(u[1]), Half(u[2]), Half(u[3])>>
\* vector * scalar
VScale(u, k) == <<u[1] * k, u[2] * k, u[3] * k>>
Dot(u, v) == u[1] * v[1] + u[2] * v[2] + u[3] * v[3]

\* glm::abs of a vector
VAbs(u) == <<Abs(u[1]), Abs(u[2]), Abs(u[3])>>

\* MinVector / MaxVector / glm::min / glm::max: component-wise
MinVector(u, v) == <<Min2(u[1], v[1]), Min2(u[2], v[2]), Min2(u[3], v[3])>>
MaxVector(u, v) == <<Max2(u[1], v[1]), Max2(u[2], v[2]), Max2(u[3], v[3])>>

\* sqrt, rounded to the nearest grid step
Sqrt(n) == CHOOSE r \in 0..n : 4 * n < (2 * r + 1) * (2 * r + 1)
                               /\ (r = 0 \/ (2 * r - 1) * (2 * r - 1) <= 4 * n)
\* glm::length
Length(u) == Sqrt(Dot(u, u))

\* IsNearlyZero(float): the grid step is coarser than the float tolerance
IsNearlyZero(x) == x = 0
IsNearlyZero3(v) == IsNearlyZero(v[1]) /\ IsNearlyZero(v[2]) /\ IsNearlyZero(v[3])

\* ------------------------------------------------------------------- Plane
\* Plane: a normal and an offset; Set(point, normal), Distance(point).
PlaneSet(point, normal) == [normal |-> normal, d |-> -Dot(normal, point)]
PlaneDistance(pl, p) == Dot(pl.normal, p) + pl.d
\* mem_zero of a Plane
ZeroPlane == [normal |-> Zero3, d |-> 0]

\* -------------------------------------------------------------------- AABB
AABBFaceNormal == << <<-1, 0, 0>>, <<1, 0, 0>>, <<0, -1, 0>>,
                     <<0, 1, 0>>, <<0, 0, -1>>, <<0, 0, 1>> >>

\* the face centres Update() derives from minPoint, maxPoint, center
FaceCenters(box) ==
    << <<box.minPoint[1], box.center[2], box.center[3]>>,
       <<box.maxPoint[1], box.center[2], box.center[3]>>,
       <<box.center[1], box.minPoint[2], box.center[3]>>,
       <<box.center[1], box.maxPoint[2], box.center[3]>>,
       <<box.center[1], box.center[2], box.minPoint[3]>>,
       <<box.center[1], box.center[2], box.maxPoint[3]>> >>

\* AABB::Update
Update(box) ==
    LET fc == FaceCenters(box)
    IN [box EXCEPT !.face_center_point = fc,
                   !.planes = [i \in 1..6 |-> PlaneSet(fc[i], AABBFaceNormal[i])]]

\* AABB::Clear: mem_zero of every member
AABBClear(box) ==
    [minPoint |-> Zero3, maxPoint |-> Zero3, center |-> Zero3, length |-> Zero3,
     planes |-> [i \in 1..6 |-> ZeroPlane],
     face_center_point |-> [i \in 1..6 |-> Zero3]]

\* AABB::SetCornerLength
SetCornerLength(box, c, l) ==
    Update([box EXCEPT !.minPoint = c,
                       !.length = l,
                       !.maxPoint = VAdd(c, l),
                       !.center = VHalf(VAdd(c, VAdd(c, l)))])

\* fault: SetMinMax that leaves the stored length as it was
SetMinMaxKeepLength(box, min_v, max_v) ==
    Update([box EXCEPT !.minPoint = min_v,
                       !.maxPoint = max_v,
                       !.center = VHalf(VAdd(min_v, max_v))])

\* AABB::SetMinMax
SetMinMax(box, min_v, max_v) ==
    Update([box EXCEPT !.minPoint = min_v,
                       !.maxPoint = max_v,
                       !.length = VSub(max_v, min_v),
                       !.center = VHalf(VAdd(min_v, max_v))])

\* storage of an AABB before its constructor has run (every member is then assigned)
RawAABB == AABBClear([minPoint |-> Zero3])

\* fault: a constructor that hands SetCornerLength a zero length
AABBNewZeroLength == SetCornerLength(RawAABB, Zero3, Zero3)

\* AABB::AABB
AABBNew == SetCornerLength(RawAABB, Zero3, One3)

\* the i-th point (from 0) of a float buffer read with stride component_count
BufPoint(pts, i, component_count) ==
    <<pts[i * component_count + 1], pts[i * component_count + 2],
      pts[i * component_count + 3]>>

RECURSIVE ScanMin(_, _, _, _, _)
ScanMin(pts, i, count, component_count, minp) ==
    IF i >= count THEN minp
    ELSE ScanMin(pts, i + 1, count, component_count,
                 MinVector(minp, BufPoint(pts, i, component_count)))

RECURSIVE ScanMax(_, _, _, _, _)
ScanMax(pts, i, count, component_count, maxp) ==
    IF i >= count THEN maxp
    ELSE ScanMax(pts, i + 1, count, component_count,
                 MaxVector(maxp, BufPoint(pts, i, component_count)))

\* a null float pointer
NullPtr == <<>>

\* AABB::SetFromPoints
AABBSetFromPoints(box, pts, count, component_count) ==
    IF pts = NullPtr \/ count = 0 THEN AABBClear(box)
    ELSE SetMinMax(AABBClear(box),
                   ScanMin(pts, 1, count, component_count, BufPoint(pts, 0, component_count)),
                   ScanMax(pts, 1, count, component_count, BufPoint(pts, 0, component_count)))

\* fault: a Merge that takes the maxPoint of the other box
AABBMergeOtherMax(box, other) ==
    SetMinMax(box, MinVector(box.minPoint, other.minPoint), other.maxPoint)

\* AABB::Merge
AABBMerge(box, other) ==
    SetMinMax(box, MinVector(box.minPoint, other.minPoint),
                   MaxVector(box.maxPoint, other.maxPoint))

\* AABB::ExpandToInclude
AABBExpandToInclude(box, point) ==
    SetMinMax(box, MinVector(box.minPoint, point), MaxVector(box.maxPoint, point))

\* AABB::IsEmpty
AABBIsEmpty(box) == IsNearlyZero3(box.length)

\* AABB::ContainsPoint
AABBContainsPoint(box, point) ==
    /\ point[1] >= box.minPoint[1] /\ point[1] <= box.maxPoint[1]
    /\ point[2] >= box.minPoint[2] /\ point[2] <= box.maxPoint[2]
    /\ point[3] >= box.minPoint[3] /\ point[3] <= box.maxPoint[3]

\* fault: the clamp of ClosestPoint with its two bounds exchanged
ClosestPointSwapped(box, point) ==
    [i \in 1..3 |-> Max2(Min2(point[i], box.minPoint[i]), box.maxPoint[i])]

\* AABB::ClosestPoint: glm::clamp(point, minPoint, maxPoint)
ClosestPoint(box, point) ==
    [i \in 1..3 |-> Min2(Max2(point[i], box.minPoint[i]), box.maxPoint[i])]

\* AABB::DistanceToPointSquared, in units of One * One
DistanceToPointSquared(box, point) ==
    Dot(VSub(point, ClosestPoint(box, point)), VSub(point, ClosestPoint(box, point)))

\* AABB::DistanceToPoint
DistanceToPoint(box, point) == Sqrt(DistanceToPointSquared(box, point))

\* std::numeric_limits<float>::infinity(): above every t the runs compute
Infinity == 1000

\* (bound - origin) * inv_d of the slab test, in units of 1 / One; the runs
\* use rays for which the quotient is a grid number
SlabT(bound, origin, d) == ((bound - origin) * One) \div d

\* fault: the slab step without the swap of t1 and t2
SlabStepNoSwap(box, ray, i, t) ==
    IF ray.direction[i] = 0
    THEN IF ray.origin[i] < box.minPoint[i] \/ ray.origin[i] > box.maxPoint[i]
         THEN [ret |-> FALSE, t_min |-> t.t_min, t_max |-> t.t_max]
         ELSE [ret |-> TRUE, t_min |-> t.t_min, t_max |-> t.t_max]
    ELSE LET t1 == SlabT(box.minPoint[i], ray.origin[i], ray.direction[i])
             t2 == SlabT(box.maxPoint[i], ray.origin[i], ray.direction[i])
             tmin == Max2(t.t_min, t1)
             tmax == Min2(t.t_max, t2)
         IN [ret |-> ~(tmin > tmax), t_min |-> tmin, t_max |-> tmax]

\* one pass of the loop of AABB::IntersectsRay(ray, t_min, t_max) for axis i:
\* ret FALSE is the early return. A direction component below 1e-8 in magnitude
\* is a zero one on the grid.
SlabStep(box, ray, i, t) ==
    IF ray.direction[i] = 0
    THEN IF ray.origin[i] < box.minPoint[i] \/ ray.origin[i] > box.maxPoint[i]
         THEN [ret |-> FALSE, t_min |-> t.t_min, t_max |-> t.t_max]
         ELSE [ret |-> TRUE, t_min |-> t.t_min, t_max |-> t.t_max]
    ELSE LET ta == SlabT(box.minPoint[i], ray.origin[i], ray.direction[i])
             tb == SlabT(box.maxPoint[i], ray.origin[i], ray.direction[i])
             t1 == IF ta > tb THEN tb ELSE ta
             t2 == IF ta > tb THEN ta ELSE tb
             tmin == Max2(t.t_min, t1)
             tmax == Min2(t.t_max, t2)
         IN [ret |-> ~(tmin > tmax), t_min |-> tmin, t_max |-> tmax]

\* AABB::IntersectsRay(ray, t_min, t_max): the returned bool and the two out
\* parameters
IntersectsRayMinMax(box, ray) ==
    LET t0 == [ret |-> TRUE, t_min |-> 0, t_max |-> Infinity]
        t1 == SlabStep(box, ray, 1, t0)
        t2 == IF t1.ret THEN SlabStep(box, ray, 2, t1) ELSE t1
        t3 == IF t2.ret THEN SlabStep(box, ray, 3, t2) ELSE t2
    IN IF t3.ret THEN [t3 EXCEPT !.ret = t3.t_max >= 0] ELSE t3

\* AABB::IntersectsRay(ray)
IntersectsRay(box, ray) == IntersectsRayMinMax(box, ray).ret

\* AABB::IntersectsRay(ray, distance): the returned bool and the out parameter,
\* which keeps the caller's value when the slab test fails
IntersectsRayDistance(box, ray, distance) ==
    LET r == IntersectsRayMinMax(box, ray)
        dist == IF r.t_min >= 0 THEN r.t_min ELSE r.t_max
    IN IF r.ret THEN [ret |-> dist >= 0, distance |-> dist]
       ELSE [ret |-> FALSE, distance |-> distance]

\* fault: the first x comparison of Intersects made non-strict
IntersectsOpenOnX(box, other) ==
    ~(\/ box.maxPoint[1] <= other.minPoint[1] \/ box.minPoint[1] > other.maxPoint[1]
      \/ box.maxPoint[2] < other.minPoint[2] \/ box.minPoint[2] > other.maxPoint[2]
      \/ box.maxPoint[3] < other.minPoint[3] \/ box.minPoint[3] > other.maxPoint[3])

\* AABB::Intersects
AABBIntersects(box, other) ==
    ~(\/ box.maxPoint[1] < other.minPoint[1] \/ box.minPoint[1] > other.maxPoint[1]
      \/ box.maxPoint[2] < other.minPoint[2] \/ box.minPoint[2] > other.maxPoint[2]
      \/ box.maxPoint[3] < other.minPoint[3] \/ box.minPoint[3] > other.maxPoint[3])

\* AABB::Contains
AABBContains(box, other) ==
    /\ other.minPoint[1] >= box.minPoint[1] /\ other.maxPoint[1] <= box.maxPoint[1]
    /\ other.minPoint[2] >= box.minPoint[2] /\ other.maxPoint[2] <= box.maxPoint[2]
    /\ other.minPoint[3] >= box.minPoint[3] /\ other.maxPoint[3] <= box.maxPoint[3]

\* fault: GetIntersection with MinVector and MaxVector exchanged
GetIntersectionSwapped(box, other, intersection) ==
    IF ~AABBIntersects(box, other)
    THEN [ret |-> FALSE, intersection |-> intersection]
    ELSE [ret |-> TRUE,
          intersection |-> SetMinMax(intersection,
                                     MinVector(box.minPoint, other.minPoint),
                                     MaxVector(box.maxPoint, other.maxPoint))]

\* AABB::GetIntersection: the returned bool and the out parameter
GetIntersection(box, other, intersection) ==
    IF ~AABBIntersects(box, other)
    THEN [ret |-> FALSE, intersection |-> intersection]
    ELSE [ret |-> TRUE,
          intersection |-> SetMinMax(intersection,
                                     MaxVector(box.minPoint, other.minPoint),
                                     MinVector(box.maxPoint, other.maxPoint))]

\* fault: the delta of Distance without its else-if branch
DistanceDeltaOneSided(box, other, i) ==
    IF box.maxPoint[i] < other.minPoint[i] THEN other.minPoint[i] - box.maxPoint[i]
    ELSE 0

\* one axis of the delta of AABB::Distance
DistanceDelta(box, other, i) ==
    IF box.maxPoint[i] < other.minPoint[i] THEN other.minPoint[i] - box.maxPoint[i]
    ELSE IF box.minPoint[i] > other.maxPoint[i] THEN box.minPoint[i] - other.maxPoint[i]
    ELSE 0

\* AABB::Distance
AABBDistance(box, other) ==
    IF AABBIntersects(box, other) THEN 0
    ELSE Length(<<DistanceDelta(box, other, 1), DistanceDelta(box, other, 2),
                  DistanceDelta(box, other, 3)>>)

\* --------------------------------------------------------------------- OBB
\* OBB::ComputePlanes
ComputePlanes(obb) ==
    [obb EXCEPT !.planes =
        << PlaneSet(VAdd(obb.center, VScale(obb.axis[1], obb.half_length[1])), obb.axis[1]),
           PlaneSet(VSub(obb.center, VScale(obb.axis[1], obb.half_length[1])), VNeg(obb.axis[1])),
           PlaneSet(VAdd(obb.center, VScale(obb.axis[2], obb.half_length[2])), obb.axis[2]),
           PlaneSet(VSub(obb.center, VScale(obb.axis[2], obb.half_length[2])), VNeg(obb.axis[2])),
           PlaneSet(VAdd(obb.center, VScale(obb.axis[3], obb.half_length[3])), obb.axis[3]),
           PlaneSet(VSub(obb.center, VScale(obb.axis[3], obb.half_length[3])), VNeg(obb.axis[3])) >>]

\* OBB::Set(c, a0, a1, a2, hl)
OBBSetAxes(obb, c, a0, a1, a2, hl) ==
    ComputePlanes([obb EXCEPT !.center = c,
                              !.axis = <<a0, a1, a2>>,
                              !.half_length = hl])

\* OBB::Set(c, hl)
OBBSet(obb, c, hl) == OBBSetAxes(obb, c, <<1, 0, 0>>, <<0, 1, 0>>, <<0, 0, 1>>, hl)

\* OBB::Clear: mem_zero of every member
OBBClear(obb) ==
    [center |-> Zero3, axis |-> <<Zero3, Zero3, Zero3>>, half_length |-> Zero3,
     planes |-> [i \in 1..6 |-> ZeroPlane]]

\* storage of an OBB before its constructor has run (every member is then assigned)
RawOBB == OBBClear([center |-> Zero3])

\* OBB::OBB()
OBBNew == OBBSet(RawOBB, Zero3, One3)

\* OBB::IsEmpty
OBBIsEmpty(obb) == IsNearlyZero3(obb.half_length)

\* OBB::GetCorners
GetCorners(obb) ==
    LET ex == VScale(obb.axis[1], obb.half_length[1])
        ey == VScale(obb.axis[2], obb.half_length[2])
        ez == VScale(obb.axis[3], obb.half_length[3])
        c == obb.center
    IN << VSub(VSub(VSub(c, ex), ey), ez),
          VSub(VSub(VAdd(c, ex), ey), ez),
          VSub(VAdd(VSub(c, ex), ey), ez),
          VSub(VAdd(VAdd(c, ex), ey), ez),
          VAdd(VSub(VSub(c, ex), ey), ez),
          VAdd(VSub(VAdd(c, ex), ey), ez),
          VAdd(VAdd(VSub(c, ex), ey), ez),
          VAdd(VAdd(VAdd(c, ex), ey), ez) >>

\* fault: ContainsPoint that rejects a point whose projection equals the half-extent
OBBContainsPointOpen(obb, point) ==
    LET d == VSub(point, obb.center)
    IN \A i \in 1..3 : ~(Abs(Dot(d, obb.axis[i])) >= obb.half_length[i])

\* OBB::ContainsPoint
OBBContainsPoint(obb, point) ==
    LET d == VSub(point, obb.center)
    IN \A i \in 1..3 : ~(Abs(Dot(d, obb.axis[i])) > obb.half_length[i])

\* fault: ExpandToInclude that does not call ComputePlanes
OBBExpandKeepPlanes(obb, point) ==
    LET local_point == VSub(point, obb.center)
        projected == <<Dot(local_point, obb.axis[1]), Dot(local_point, obb.axis[2]),
                       Dot(local_point, obb.axis[3])>>
    IN [obb EXCEPT !.half_length =
           <<Max2(obb.half_length[1], Abs(projected[1])),
             Max2(obb.half_length[2], Abs(projected[2])),
             Max2(obb.half_length[3], Abs(projected[3]))>>]

\* OBB::ExpandToInclude
OBBExpandToInclude(obb, point) ==
    LET local_point == VSub(point, obb.center)
        projected == <<Dot(local_point, obb.axis[1]), Dot(local_point, obb.axis[2]),
                       Dot(local_point, obb.axis[3])>>
    IN ComputePlanes([obb EXCEPT !.half_length =
                         <<Max2(obb.half_length[1], Abs(projected[1])),
                           Max2(obb.half_length[2], Abs(projected[2])),
                           Max2(obb.half_length[3], Abs(projected[3]))>>])

\* component-wise minimum / maximum of the points cs[1..n], starting from acc
RECURSIVE MinOver(_, _, _)
MinOver(cs, n, acc) == IF n = 0 THEN acc ELSE MinOver(cs, n - 1, MinVector(acc, cs[n]))

RECURSIVE MaxOver(_, _, _)
MaxOver(cs, n, acc) == IF n = 0 THEN acc ELSE MaxOver(cs, n - 1, MaxVector(acc, cs[n]))

\* the min_pt and max_pt of OBB::Merge: the world-axis bounds of the 16 corners
MergeBounds(obb, other) ==
    LET corners1 == GetCorners(obb)
        corners2 == GetCorners(other)
    IN [min_pt |-> MinOver(corners2, 8, MinOver(corners1, 8, corners1[1])),
        max_pt |-> MaxOver(corners2, 8, MaxOver(corners1, 8, corners1[1]))]

\* OBB::Merge
OBBMerge(obb, other) ==
    LET bounds == MergeBounds(obb, other)
        min_pt == bounds.min_pt
        max_pt == bounds.max_pt
    IN ComputePlanes([obb EXCEPT !.center = VHalf(VAdd(min_pt, max_pt)),
                                 !.half_length = VHalf(VSub(max_pt, min_pt))])

\* A Matrix4f as its four columns, each cut to its first three rows.
\* mat3(m) * v
MatVec(m, v) == VAdd(VAdd(VScale(m[1], v[1]), VScale(m[2], v[2])), VScale(m[3], v[3]))
\* vec3(m * vec4(p, 1))
MatPoint(m, p) == VAdd(MatVec(m, p), m[4])

\* the point of coordinates u in the frame
FromFrame(frame, u) ==
    VAdd(VAdd(VScale(frame[1], u[1]), VScale(frame[2], u[2])), VScale(frame[3], u[3]))

\* a buffer's points in the coordinates of a frame
InFrame(frame, pts, count, component_count) ==
    [i \in 1..(3 * count) |->
        Dot(BufPoint(pts, (i - 1) \div 3, component_count), frame[((i - 1) % 3) + 1])]

\* the extent along each axis of the box of a frame around a buffer's points
FitExtent(frame, pts, count, component_count) ==
    LET local == InFrame(frame, pts, count, component_count)
    IN VSub(ScanMax(local, 1, count, 3, BufPoint(local, 0, 3)),
            ScanMin(local, 1, count, 3, BufPoint(local, 0, 3)))

FitVolume(frame, pts, count, component_count) ==
    LET e == FitExtent(frame, pts, count, component_count)
    IN e[1] * e[2] * e[3]

\* OBB::SetFromPoints with the search ending at the frame: the box of that
\* frame around the points
OBBSetFromPoints(obb, frame, pts, count, component_count) ==
    LET local == InFrame(frame, pts, count, component_count)
        lo == ScanMin(local, 1, count, 3, BufPoint(local, 0, 3))
        hi == ScanMax(local, 1, count, 3, BufPoint(local, 0, 3))
    IN OBBSetAxes(obb, FromFrame(frame, VHalf(VAdd(lo, hi))),
                  frame[1], frame[2], frame[3], VHalf(VSub(hi, lo)))

\* the corners[8] array of AABB::Transformed
TransformedCorners(box) ==
    << box.minPoint,
       <<box.maxPoint[1], box.minPoint[2], box.minPoint[3]>>,
       <<box.minPoint[1], box.maxPoint[2], box.minPoint[3]>>,
       <<box.maxPoint[1], box.maxPoint[2], box.minPoint[3]>>,
       <<box.minPoint[1], box.minPoint[2], box.maxPoint[3]>>,
       <<box.maxPoint[1], box.minPoint[2], box.maxPoint[3]>>,
       <<box.minPoint[1], box.maxPoint[2], box.maxPoint[3]>>,
       box.maxPoint >>

\* AABB::Transformed: the transformed[8] array is read with the stride of a
\* Vector3f
AABBTransformed(box, m) ==
    IF AABBIsEmpty(box) THEN box
    ELSE LET c == TransformedCorners(box)
             transformed == MatPoint(m, c[1]) \o MatPoint(m, c[2]) \o MatPoint(m, c[3])
                            \o MatPoint(m, c[4]) \o MatPoint(m, c[5]) \o MatPoint(m, c[6])
                            \o MatPoint(m, c[7]) \o MatPoint(m, c[8])
         IN AABBSetFromPoints(AABBNew, transformed, 8, 3)

\* v / l for a direction v of length l
VDiv(v, l) == <<v[1] \div l, v[2] \div l, v[3] \div l>>

\* glm::cross
Cross(u, v) == <<u[2] * v[3] - u[3] * v[2], u[3] * v[1] - u[1] * v[3],
                 u[1] * v[2] - u[2] * v[1]>>

\* the projected radius of a box onto the direction n: the sum over its three
\* axes of abs(dot(axis, n)) * half_length
Radius3(obb, n) ==
    Abs(Dot(obb.axis[1], n)) * obb.half_length[1]
    + Abs(Dot(obb.axis[2], n)) * obb.half_length[2]
    + Abs(Dot(obb.axis[3], n)) * obb.half_length[3]

\* fault: a projected radius onto a cross-product axis that takes axis k and
\* the one after it
Radius2FromK(obb, k, n) ==
    obb.half_length[k] * Abs(Dot(obb.axis[k], n))
    + obb.half_length[(k % 3) + 1] * Abs(Dot(obb.axis[(k % 3) + 1], n))

\* the projected radius onto a cross-product axis, which leaves out axis k
Radius2(obb, k, n) ==
    obb.half_length[(k % 3) + 1] * Abs(Dot(obb.axis[(k % 3) + 1], n))
    + obb.half_length[((k + 1) % 3) + 1] * Abs(Dot(obb.axis[((k + 1) % 3) + 1], n))

\* OBB::Intersects: the separating-axis test over the 15 axes. A cross product
\* shorter than 1e-6 is a zero one on the grid of the axes.
OBBIntersects(obb, other) ==
    LET t == VSub(other.center, obb.center)
    IN /\ \A i \in 1..3 :
             ~(Abs(Dot(t, obb.axis[i])) > obb.half_length[i] + Radius3(other, obb.axis[i]))
       /\ \A i \in 1..3 :
             ~(Abs(Dot(t, other.axis[i])) > Radius3(obb, other.axis[i]) + other.half_length[i])
       /\ \A i \in 1..3, j \in 1..3 :
             LET c == Cross(obb.axis[i], other.axis[j])
                 len == Length(c)
             IN len = 0
                \/ ~(Abs(Dot(t, VDiv(c, len)))
                        > Radius2(obb, i, VDiv(c, len)) + Radius2(other, j, VDiv(c, len)))

\* OBB::IntersectsAABB: the three axes of the OBB, then the three world axes
OBBIntersectsAABB(obb, aabb) ==
    LET aabb_extent == VHalf(aabb.length)
        t == VSub(aabb.center, obb.center)
    IN /\ \A i \in 1..3 :
             ~(Abs(Dot(t, obb.axis[i]))
                  > obb.half_length[i] + Dot(aabb_extent, VAbs(obb.axis[i])))
       /\ \A i \in 1..3 :
             ~(Abs(t[i]) > obb.half_length[1] * Abs(obb.axis[1][i])
                           + obb.half_length[2] * Abs(obb.axis[2][i])
                           + obb.half_length[3] * Abs(obb.axis[3][i])
                           + aabb_extent[i])

\* AABB::IntersectsOBB
AABBIntersectsOBB(aabb, obb) == OBBIntersectsAABB(obb, aabb)

\* OBB::Transformed
OBBTransformed(obb, m) ==
    IF OBBIsEmpty(obb) THEN obb
    ELSE LET v0 == MatVec(m, obb.axis[1])
             v1 == MatVec(m, obb.axis[2])
             v2 == MatVec(m, obb.axis[3])
             l0 == Length(v0)
             l1 == Length(v1)
             l2 == Length(v2)
         IN ComputePlanes([OBBNew EXCEPT
                !.center = MatPoint(m, obb.center),
                !.axis = << IF l0 > 0 THEN VDiv(v0, l0) ELSE obb.axis[1],
                            IF l1 > 0 THEN VDiv(v1, l1) ELSE obb.axis[2],
                            IF l2 > 0 THEN VDiv(v2, l2) ELSE obb.axis[3] >>,
                !.half_length = <<obb.half_length[1] * l0, obb.half_length[2] * l1,
                                  obb.half_length[3] * l2>>])

\* ---------------------------------------------------------- BoundingSphere
\* BoundingSphere's member initialisers
SphereNew == [center |-> Zero3, radius |-> -One]

\* BoundingSphere::Clear
SphereClear(sphere) == [center |-> Zero3, radius |-> -One]

\* BoundingSphere::IsEmpty
SphereIsEmpty(sphere) == sphere.radius <= 0

\* BoundingSphere::Set
SphereSet(sphere, c, r) == [sphere EXCEPT !.center = c, !.radius = r]

\* the sum of the first count points of a buffer
RECURSIVE SumPoints(_, _, _, _, _)
SumPoints(pts, i, count, component_count, c) ==
    IF i >= count THEN c
    ELSE SumPoints(pts, i + 1, count, component_count,
                   VAdd(c, BufPoint(pts, i, component_count)))

\* the largest distance from c to one of the first count points of a buffer
RECURSIVE MaxDistance(_, _, _, _, _, _)
MaxDistance(pts, i, count, component_count, c, r) ==
    IF i >= count THEN r
    ELSE MaxDistance(pts, i + 1, count, component_count, c,
                     Max2(r, Length(VSub(BufPoint(pts, i, component_count), c))))

\* fault: a SetFromPoints that keeps the sphere when there are no points
SphereSetFromPointsKeep(sphere, pts, count, component_count) ==
    IF pts = NullPtr \/ count = 0 THEN sphere
    ELSE LET c == VDiv(SumPoints(pts, 0, count, component_count, Zero3), count)
         IN [center |-> c, radius |-> MaxDistance(pts, 0, count, component_count, c, 0)]

\* BoundingSphere::SetFromPoints
SphereSetFromPoints(sphere, pts, count, component_count) ==
    IF pts = NullPtr \/ count = 0 THEN SphereClear(sphere)
    ELSE LET c == VDiv(SumPoints(pts, 0, count, component_count, Zero3), count)
         IN [center |-> c, radius |-> MaxDistance(pts, 0, count, component_count, c, 0)]

\* BoundingSphere::ContainsPoint
SphereContainsPoint(sphere, point) ==
    LET diff == VSub(point, sphere.center)
    IN Dot(diff, diff) <= sphere.radius * sphere.radius

\* BoundingSphere::Intersects
SphereIntersects(sphere, other) ==
    LET diff == VSub(sphere.center, other.center)
        sum_radius == sphere.radius + other.radius
    IN Dot(diff, diff) <= sum_radius * sum_radius

\* BoundingSphere::Contains
SphereContains(sphere, other) ==
    Length(VSub(sphere.center, other.center)) + other.radius <= sphere.radius

\* BoundingSphere::IntersectsRay(ray, distance): the returned bool and the out
\* parameter. With lengths in units of 1 / One, b and c are in units of
\* 1 / One^2 and the discriminant b * b - c in units of 1 / One^4.
SphereIntersectsRay(sphere, ray, distance) ==
    LET m == VSub(ray.origin, sphere.center)
        bb == Dot(m, ray.direction)
        c == Dot(m, m) - sphere.radius * sphere.radius
        discr == bb * bb - c * One * One
    IN IF c > 0 /\ bb > 0 THEN [ret |-> FALSE, distance |-> distance]
       ELSE IF discr < 0 THEN [ret |-> FALSE, distance |-> distance]
       ELSE [ret |-> TRUE, distance |-> Max2(0, (-bb - Sqrt(discr)) \div One)]

\* d * t with t = num / dist, rounded to the grid
ScaleRatio(d, num, dist) ==
    <<(d[1] * num) \div dist, (d[2] * num) \div dist, (d[3] * num) \div dist>>

\* fault: Merge that grows the radius and leaves the center where it was
SphereMergeNoShift(sphere, other) ==
    IF SphereIsEmpty(other) THEN sphere
    ELSE IF SphereIsEmpty(sphere) THEN other
    ELSE LET d == VSub(other.center, sphere.center)
             dist == Length(d)
             new_radius == Half(dist + sphere.radius + other.radius)
         IN IF dist + other.radius <= sphere.radius THEN sphere
            ELSE IF dist + sphere.radius <= other.radius THEN other
            ELSE [center |-> sphere.center, radius |-> new_radius]

\* BoundingSphere::Merge
SphereMerge(sphere, other) ==
    IF SphereIsEmpty(other) THEN sphere
    ELSE IF SphereIsEmpty(sphere) THEN other
    ELSE LET d == VSub(other.center, sphere.center)
             dist == Length(d)
             new_radius == Half(dist + sphere.radius + other.radius)
         IN IF dist + other.radius <= sphere.radius THEN sphere
            ELSE IF dist + sphere.radius <= other.radius THEN other
            ELSE [center |-> VAdd(sphere.center,
                                  ScaleRatio(d, new_radius - sphere.radius, dist)),
                  radius |-> new_radius]

\* BoundingSphere::ExpandToInclude
SphereExpandToInclude(sphere, point) ==
    IF SphereIsEmpty(sphere) THEN [center |-> point, radius |-> 0]
    ELSE LET dist == Length(VSub(point, sphere.center))
         IN IF dist > sphere.radius THEN [sphere EXCEPT !.radius = dist] ELSE sphere

\* --------------------------------------------------------- BoundingVolumes
\* ToOBB(aabb)
ToOBB(aabb) == OBBSet(OBBNew, aabb.center, VHalf(aabb.length))

\* ToAABB(obb)
ToAABB(obb) ==
    IF OBBIsEmpty(obb) THEN AABBClear(AABBNew)
    ELSE LET e == VAdd(VAdd(VScale(VAbs(obb.axis[1]), obb.half_length[1]),
                            VScale(VAbs(obb.axis[2]), obb.half_length[2])),
                       VScale(VAbs(obb.axis[3]), obb.half_length[3]))
         IN SetMinMax(AABBNew, VSub(obb.center, e), VAdd(obb.center, e))

\* BoundingVolumes::Clear
BVClear(v) ==
    [aabb |-> AABBClear(v.aabb),
     obb |-> OBBClear(v.obb),
     bsphere |-> [center |-> Zero3, radius |-> 0]]

\* BoundingVolumes::BoundingVolumes: the members' constructors, then Clear()
BVNew == BVClear([aabb |-> AABBNew, obb |-> OBBNew, bsphere |-> SphereNew])

\* BoundingVolumes::IsEmpty
BVIsEmpty(v) ==
    AABBIsEmpty(v.aabb) /\ v.obb.half_length[1] <= 0 /\ v.bsphere.radius <= 0

\* BoundingVolumes::SetFromAABB(box)
SetFromAABB(v, box) ==
    [aabb |-> box,
     obb |-> ToOBB(box),
     bsphere |-> [center |-> box.center,
                  radius |-> Length(VSub(box.maxPoint, box.center))]]

\* BoundingVolumes::SetFromAABB(min_v, max_v)
SetFromMinMax(v, min_v, max_v) == SetFromAABB(v, SetMinMax(AABBNew, min_v, max_v))

\* BoundingVolumes::Merge
BVMerge(v, other) ==
    [aabb |-> AABBMerge(v.aabb, other.aabb),
     obb |-> OBBMerge(v.obb, other.obb),
     bsphere |-> SphereMerge(v.bsphere, other.bsphere)]

\* BoundingVolumes::ExpandToInclude
BVExpandToInclude(v, point) ==
    [aabb |-> AABBExpandToInclude(v.aabb, point),
     obb |-> OBBExpandToInclude(v.obb, point),
     bsphere |-> SphereExpandToInclude(v.bsphere, point)]

\* BoundingVolumes::ContainsPoint
BVContainsPoint(v, point) ==
    \/ AABBContainsPoint(v.aabb, point)
    \/ OBBContainsPoint(v.obb, point)
    \/ SphereContainsPoint(v.bsphere, point)

\* BoundingVolumes::SetFromPoints, the search of the OBB ending at the frame
BVSetFromPoints(v, frame, pts, count, component_count) ==
    IF pts = NullPtr \/ count <= 0 THEN [v |-> BVClear(v), ret |-> FALSE]
    ELSE [v |-> [aabb |-> AABBSetFromPoints(v.aabb, pts, count, component_count),
                 obb |-> OBBSetFromPoints(v.obb, frame, pts, count, component_count),
                 bsphere |-> SphereSetFromPoints(v.bsphere, pts, count, component_count)],
          ret |-> TRUE]

\* BoundingVolumes::IntersectsFast / IntersectsAABB / IntersectsOBB
IntersectsFast(v, other) == SphereIntersects(v.bsphere, other.bsphere)
IntersectsAABB(v, other) == AABBIntersects(v.aabb, other.aabb)
IntersectsOBB(v, other) == OBBIntersects(v.obb, other.obb)

\* fault: the cascade with the AABB test before the sphere test
BVIntersectsBoxFirst(v, other) ==
    IF ~IntersectsAABB(v, other)
    THEN [calls |-> <<"IntersectsAABB">>, ret |-> FALSE]
    ELSE IF ~IntersectsFast(v, other)
    THEN [calls |-> <<"IntersectsAABB", "IntersectsFast">>, ret |-> FALSE]
    ELSE [calls |-> <<"IntersectsAABB", "IntersectsFast", "IntersectsOBB">>,
          ret |-> IntersectsOBB(v, other)]

\* BoundingVolumes::Intersects: the tests it evaluates, in order, and what it
\* returns
BVIntersects(v, other) ==
    IF ~IntersectsFast(v, other)
    THEN [calls |-> <<"IntersectsFast">>, ret |-> FALSE]
    ELSE IF ~IntersectsAABB(v, other)
    THEN [calls |-> <<"IntersectsFast", "IntersectsAABB">>, ret |-> FALSE]
    ELSE [calls |-> <<"IntersectsFast", "IntersectsAABB", "IntersectsOBB">>,
          ret |-> IntersectsOBB(v, other)]

\* ----------------------------------------------------------------- Frustum
\* AABB::GetVertexP
GetVertexP(box, normal) ==
    [i \in 1..3 |-> IF normal[i] > 0 THEN box.minPoint[i] + box.length[i]
                    ELSE box.minPoint[i]]

\* AABB::GetVertexN
GetVertexN(box, normal) ==
    [i \in 1..3 |-> IF normal[i] < 0 THEN box.minPoint[i] + box.length[i]
                    ELSE box.minPoint[i]]

\* A Matrix4f as its four columns of four rows: the first three columns hold
\* numbers, the fourth a position (its w row again a number).
\* The plane row w + sign * row k of GetFrustumPlanes, before it is normalised
FrustumRow(mvp, k, sign) ==
    [normal |-> <<mvp[1][4] + sign * mvp[1][k], mvp[2][4] + sign * mvp[2][k],
                  mvp[3][4] + sign * mvp[3][k]>>,
     d |-> One * mvp[4][4] + sign * mvp[4][k]]

\* planes[i] /= len
NormalisedPlane(pl) ==
    [normal |-> VDiv(pl.normal, Length(pl.normal)), d |-> pl.d \div Length(pl.normal)]

\* GetFrustumPlanes and Frustum::SetMatrix: Left, Right, Front, Back, Top, Bottom
SetMatrix(mvp) ==
    << NormalisedPlane(FrustumRow(mvp, 1, 1)), NormalisedPlane(FrustumRow(mvp, 1, -1)),
       NormalisedPlane(FrustumRow(mvp, 2, -1)), NormalisedPlane(FrustumRow(mvp, 2, 1)),
       NormalisedPlane(FrustumRow(mvp, 3, 1)), NormalisedPlane(FrustumRow(mvp, 3, -1)) >>

\* fault: BoxIn that returns INTERSECT at the first plane the box straddles
RECURSIVE BoxInFirstHit(_, _, _, _)
BoxInFirstHit(pl, box, i, result) ==
    IF i > 6 THEN result
    ELSE IF PlaneDistance(pl[i], GetVertexP(box, pl[i].normal)) < 0 THEN "OUTSIDE"
    ELSE IF PlaneDistance(pl[i], GetVertexN(box, pl[i].normal)) < 0 THEN "INTERSECT"
    ELSE BoxInFirstHit(pl, box, i + 1, result)

\* the loop of Frustum::BoxIn from plane i on, result being what the planes
\* before i left
RECURSIVE BoxInFrom(_, _, _, _)
BoxInFrom(pl, box, i, result) ==
    IF i > 6 THEN result
    ELSE IF PlaneDistance(pl[i], GetVertexP(box, pl[i].normal)) < 0 THEN "OUTSIDE"
    ELSE IF PlaneDistance(pl[i], GetVertexN(box, pl[i].normal)) < 0
         THEN BoxInFrom(pl, box, i + 1, "INTERSECT")
    ELSE BoxInFrom(pl, box, i + 1, result)

\* Frustum::BoxIn
BoxIn(pl, box) == BoxInFrom(pl, box, 1, "INSIDE")

\* fault: PointIn that puts a point lying on a plane outside
PointInOpen(pl, p) ==
    IF \E i \in 1..6 : PlaneDistance(pl[i], p) <= 0 THEN "OUTSIDE" ELSE "INSIDE"

\* Frustum::PointIn
PointIn(pl, p) ==
    IF \E i \in 1..6 : PlaneDistance(pl[i], p) < 0 THEN "OUTSIDE" ELSE "INSIDE"

\* fault: SphereIn that returns INTERSECT at the first plane the sphere crosses
RECURSIVE SphereInFirstHit(_, _, _, _, _)
SphereInFirstHit(pl, p, radius, i, result) ==
    IF i > 6 THEN result
    ELSE IF PlaneDistance(pl[i], p) < -radius THEN "OUTSIDE"
    ELSE IF PlaneDistance(pl[i], p) < radius THEN "INTERSECT"
    ELSE SphereInFirstHit(pl, p, radius, i + 1, result)

\* the loop of Frustum::SphereIn from plane i on, result being what the planes
\* before i left
RECURSIVE SphereInFrom(_, _, _, _, _)
SphereInFrom(pl, p, radius, i, result) ==
    IF i > 6 THEN result
    ELSE IF PlaneDistance(pl[i], p) < -radius THEN "OUTSIDE"
    ELSE IF PlaneDistance(pl[i], p) < radius
         THEN SphereInFrom(pl, p, radius, i + 1, "INTERSECT")
    ELSE SphereInFrom(pl, p, radius, i + 1, result)

\* Frustum::SphereIn
SphereIn(pl, p, radius) == SphereInFrom(pl, p, radius, 1, "INSIDE")

\* ----------------------------------------------------- BoundingVolumesData
\* The record is a packed struct of float arrays; it is modelled as the sequence
\* of its floats, each field at its offset (from 1) in declaration order.
FieldNames == <<"aabbMin", "aabbMax", "obbCenter", "obbAxisX", "obbAxisY", "obbAxisZ",
                "obbHalfSize", "sphereCenter", "sphereRadius">>

\* the number of floats each field declares
FieldFloats ==
    [aabbMin |-> 3, aabbMax |-> 3, obbCenter |-> 3, obbAxisX |-> 3, obbAxisY |-> 3,
     obbAxisZ |-> 3, obbHalfSize |-> 3, sphereCenter |-> 3, sphereRadius |-> 1]

RECURSIVE FloatsBefore(_)
FloatsBefore(k) == IF k = 1 THEN 0 ELSE FloatsBefore(k - 1) + FieldFloats[FieldNames[k - 1]]

\* sizeof(BoundingVolumesData) / sizeof(float)
RecordFloats == FloatsBefore(Len(FieldNames)) + FieldFloats[FieldNames[Len(FieldNames)]]

\* the offset of float i (from 0) of a field
Off(name, i) ==
    FloatsBefore(CHOOSE k \in 1..Len(FieldNames) : FieldNames[k] = name) + i + 1

\* the three (offset, value) writes that store the vector u into a field
Store3(name, u) ==
    {<<Off(name, 0), u[1]>>, <<Off(name, 1), u[2]>>, <<Off(name, 2), u[3]>>}

\* fault: Pack that does not store sphereRadius
PackWritesNoRadius(v) ==
    Store3("aabbMin", v.aabb.minPoint)
    \cup Store3("aabbMax", v.aabb.maxPoint)
    \cup Store3("obbCenter", v.obb.center)
    \cup Store3("obbAxisX", v.obb.axis[1])
    \cup Store3("obbAxisY", v.obb.axis[2])
    \cup Store3("obbAxisZ", v.obb.axis[3])
    \cup Store3("obbHalfSize", v.obb.half_length)
    \cup Store3("sphereCenter", v.bsphere.center)

\* BoundingVolumes::Pack: the (offset, value) pairs it stores into *packed
PackWrites(v) ==
    Store3("aabbMin", v.aabb.minPoint)
    \cup Store3("aabbMax", v.aabb.maxPoint)
    \cup Store3("obbCenter", v.obb.center)
    \cup Store3("obbAxisX", v.obb.axis[1])
    \cup Store3("obbAxisY", v.obb.axis[2])
    \cup Store3("obbAxisZ", v.obb.axis[3])
    \cup Store3("obbHalfSize", v.obb.half_length)
    \cup Store3("sphereCenter", v.bsphere.center)
    \cup {<<Off("sphereRadius", 0), v.bsphere.radius>>}

\* the record after the writes ws
Stored(rec, ws) ==
    [i \in 1..Len(rec) |-> IF \E w \in ws : w[1] = i
                           THEN (CHOOSE w \in ws : w[1] = i)[2]
                           ELSE rec[i]]

\* BoundingVolumes::Pack
Pack(v, rec) == Stored(rec, PackWrites(v))

\* the vector a field holds
Load3(rec, name) == <<rec[Off(name, 0)], rec[Off(name, 1)], rec[Off(name, 2)]>>

\* fault: To that reads the second axis from obbAxisX
ToAxisSlip(rec, bounds) ==
    [aabb |-> SetMinMax(bounds.aabb, Load3(rec, "aabbMin"), Load3(rec, "aabbMax")),
     obb |-> OBBSetAxes(bounds.obb, Load3(rec, "obbCenter"), Load3(rec, "obbAxisX"),
                        Load3(rec, "obbAxisX"), Load3(rec, "obbAxisZ"),
                        Load3(rec, "obbHalfSize")),
     bsphere |-> [center |-> Load3(rec, "sphereCenter"),
                  radius |-> rec[Off("sphereRadius", 0)]]]

\* BoundingVolumesData::To
To(rec, bounds) ==
    [aabb |-> SetMinMax(bounds.aabb, Load3(rec, "aabbMin"), Load3(rec, "aabbMax")),
     obb |-> OBBSetAxes(bounds.obb, Load3(rec, "obbCenter"), Load3(rec, "obbAxisX"),
                        Load3(rec, "obbAxisY"), Load3(rec, "obbAxisZ"),
                        Load3(rec, "obbHalfSize")),
     bsphere |-> [center |-> Load3(rec, "sphereCenter"),
                  radius |-> rec[Off("sphereRadius", 0)]]]

\* ------------------------------------------------------------------ inputs
\* Input points: the grid points of the x axis, and the unit points of the y
\* and of the z axis.
Pts == {<<One * x, 0, 0>> : x \in 0..MaxX} \cup {<<0, One, 0>>, <<0, 0, One>>}

\* the points at most one unit away from the origin
NearPts == {p \in Pts : p[1] + p[2] + p[3] <= One}

\* corners from which a unit box stays on the grid of the input points
CornerPts == {p \in Pts : p[1] < One * MaxX /\ p[2] = 0 /\ p[3] = 0}

\* a float that pads a point record of a strided buffer
PadFloat == 38 * One + 1

\* the float buffer holding the points ps with stride component_count
RECURSIVE Flatten(_, _)
Flatten(ps, component_count) ==
    IF ps = <<>> THEN <<>>
    ELSE ps[1] \o [i \in 1..(component_count - 3) |-> PadFloat]
         \o Flatten(Tail(ps), component_count)

\* the points stored in buffers
BufPts == {<<One, 0, 0>>, <<0, One, 0>>}

\* the sequences of 1..n points of BufPts
RECURSIVE PointSeqs(_)
PointSeqs(n) ==
    IF n = 1 THEN {<<p>> : p \in BufPts}
    ELSE PointSeqs(n - 1)
         \cup {Append(t, p) : t \in {u \in PointSeqs(n - 1) : Len(u) = n - 1}, p \in BufPts}

\* the buffers handed to SetFromPoints
Buffers == PointSeqs(MaxCount)

\* the (minPoint, maxPoint) pairs of the other box: every pair of grid points of
\* the x axis, min above max included, and the unit point of the y axis
OtherCorners ==
    {<<p, r>> : p, r \in {<<One * x, 0, 0>> : x \in 0..MaxX}}
    \cup {<< <<0, One, 0>>, <<0, One, 0>> >>}

\* the (minPoint, maxPoint) pairs of two cubes of side 2 that overlap in a unit
\* cube, and of the cube of side 2 about the origin
Cubes == { <<Zero3, <<2 * One, 2 * One, 2 * One>> >>,
           <<One3, <<3 * One, 3 * One, 3 * One>> >>,
           <<VNeg(One3), One3>> }

\* the rays handed to IntersectsRay: along x towards and away from the origin,
\* with a direction of length 2, diagonal, and without direction
Rays == { [origin |-> <<-5 * One, 0, 0>>, direction |-> <<One, 0, 0>>],
          [origin |-> <<-5 * One, 0, 0>>, direction |-> <<-One, 0, 0>>],
          [origin |-> <<-5 * One, 0, 0>>, direction |-> <<2 * One, 0, 0>>],
          [origin |-> <<3 * One, 3 * One, 0>>, direction |-> <<-One, -One, 0>>],
          [origin |-> <<One, 0, 0>>, direction |-> Zero3] }

\* the points handed to the point queries of a box
QueryPts == Pts \cup {One3}

\* the points handed to OBB::ContainsPoint
OBBQueryPts == {<<One, 0, 0>>, <<2 * One, 0, 0>>, <<0, 0, One>>}

\* half-extents handed to OBB::Set
HalfLens == {Zero3, One3, <<2 * One, One, 0>>}

\* orthonormal frames handed to OBB::Set: the identity and a quarter turn about z
Frames == { << <<1, 0, 0>>, <<0, 1, 0>>, <<0, 0, 1>> >>,
            << <<0, 1, 0>>, <<-1, 0, 0>>, <<0, 0, 1>> >> }

\* the boxes handed to OBB::Merge
OtherOBBs == {OBBSetAxes(OBBNew, c, f[1], f[2], f[3], One3) :
                 c \in {Zero3, <<One, 0, 0>>}, f \in Frames}

\* the boxes handed to OBB::Intersects: in both frames, next to the window of
\* the runs, touching it, and away from it, one with a half-extent below zero
PairOBBs == {OBBSetAxes(OBBNew, c, f[1], f[2], f[3], hl) :
                c \in {<<One, One, 0>>, <<3 * One, 0, 0>>, <<4 * One, 0, 0>>},
                f \in Frames,
                hl \in {One3, <<2 * One, One, 0>>, <<-One, One, One>>}}

\* the (minPoint, maxPoint) pairs of the boxes handed to OBB::IntersectsAABB
PairCorners == Cubes \cup { << <<2 * One, 0, 0>>, <<3 * One, One, One>> >>,
                            << <<3 * One, 0, 0>>, <<4 * One, One, One>> >>,
                            << <<One, 0, 0>>, <<0, One, One>> >> }

\* matrices handed to Transformed: a translation, a quarter turn about z, a
\* scale of x by 2, and a matrix whose third column is zero
Matrices == { << <<1, 0, 0>>, <<0, 1, 0>>, <<0, 0, 1>>, <<One, 0, 0>> >>,
              << <<0, 1, 0>>, <<-1, 0, 0>>, <<0, 0, 1>>, Zero3 >>,
              << <<2, 0, 0>>, <<0, 1, 0>>, <<0, 0, 1>>, Zero3 >>,
              << <<1, 0, 0>>, <<0, 1, 0>>, Zero3, Zero3 >> }

\* the merges the runs make: those whose (min_pt + max_pt) * 0.5f and
\* (max_pt - min_pt) * 0.5f are grid numbers, so that OBBMerge halves exactly
MergeOnGrid(obb, other) ==
    LET bounds == MergeBounds(obb, other)
    IN \A k \in 1..3 : (bounds.min_pt[k] + bounds.max_pt[k]) % 2 = 0

\* the runs stay in a window around the input points
InWindow(obb) ==
    \A i \in 1..3 : Abs(obb.center[i]) <= One /\ obb.half_length[i] <= 2 * One

\* the merges of spheres the runs make: those whose dist, new_radius and
\* d * t are grid numbers, so that SphereMerge computes them exactly
SphereMergeOnGrid(sphere, other) ==
    LET d == VSub(other.center, sphere.center)
        dist == Length(d)
        sum == dist + sphere.radius + other.radius
    IN IF SphereIsEmpty(other) \/ SphereIsEmpty(sphere) THEN TRUE
       ELSE IF dist * dist # Dot(d, d) THEN FALSE
       ELSE IF dist + other.radius <= sphere.radius THEN TRUE
       ELSE IF dist + sphere.radius <= other.radius THEN TRUE
       ELSE /\ sum % 2 = 0
            /\ \A i \in 1..3 : (d[i] * (sum \div 2 - sphere.radius)) % dist = 0

\* radii handed to BoundingSphere::Set
Radii == {-One, 0, One, 2 * One}

\* the spheres handed to BoundingSphere::Merge
OtherSpheres == {[center |-> c, radius |-> r] : c \in NearPts, r \in Radii}

\* the rays handed to BoundingSphere::IntersectsRay: along x through the origin
\* and away from it, along x at height 2 with a direction of length 1 and of
\* length 2, and from the origin along y
SphereRays == { [origin |-> <<-5 * One, 0, 0>>, direction |-> <<One, 0, 0>>],
                [origin |-> <<-5 * One, 0, 0>>, direction |-> <<-One, 0, 0>>],
                [origin |-> <<-5 * One, 2 * One, 0>>, direction |-> <<One, 0, 0>>],
                [origin |-> <<-5 * One, 2 * One, 0>>, direction |-> <<2 * One, 0, 0>>],
                [origin |-> Zero3, direction |-> <<0, One, 0>>] }

\* the composites handed to BoundingVolumes::Merge
OtherBVs == {BVNew, SetFromMinMax(BVNew, Zero3, One3)}

\* the matrices handed to Frustum::SetMatrix: the identity, whose frustum is the
\* cube of side 2 about the origin, and translations of it
MVPs == { << <<1, 0, 0, 0>>, <<0, 1, 0, 0>>, <<0, 0, 1, 0>>, <<t[1], t[2], t[3], 1>> >> :
             t \in {Zero3, <<-2 * One, -2 * One, 0>>, <<-3 * One, 0, 0>>} }

\* the matrices of the frustums that classify spheres: those above, and one
\* whose cube lies one unit off the x axis
SphereMVPs == MVPs \cup { << <<1, 0, 0, 0>>, <<0, 1, 0, 0>>, <<0, 0, 1, 0>>,
                             <<-2 * One, -3 * One, 0, 1>> >> }

\* the composites handed to BoundingVolumes::Intersects
IntersectBVs == {SetFromMinMax(BVNew, <<2 * One, 0, 0>>, <<3 * One, One, One>>),
                 SetFromMinMax(BVNew, One3, <<2 * One, 2 * One, 2 * One>>)}

\* stored records: the nine fields in declaration order
Records ==
    {mn \o mx \o Zero3 \o <<1, 0, 0>> \o <<0, 1, 0>> \o <<0, 0, 1>> \o hs \o Zero3 \o <<r>> :
        mn \in {Zero3}, mx \in {Zero3, One3}, hs \in {Zero3, One3, <<0, One, One>>},
        r \in {0, One}}

\* a record of zero floats
BlankRecord == [i \in 1..RecordFloats |-> 0]

\* ------------------------------------------------------------------- state
\* A run drives one kind of volume: a call is made on the kind the run drives.
\* The volumes are plain values that share no state, so what one kind does is not
\* affected by calls on another. The queries are const and leave the volume as
\* it is, so a run of AABBs makes either the queries about a second box or those
\* about a point or a ray, and a run of composites either packs and loads
\* records, or tests against a second composite, or is fitted to points, and a
\* run of OBBs that tests pairs of boxes sets its box directly.
VARIABLES
    kind,     \* the kind of volume this run drives, and the queries it makes
    op,       \* the last call made
    a, b,     \* two AABBs; b is the argument of a's pair operations
    q,        \* what the last query returned
    o,        \* an OBB
    s,        \* a BoundingSphere
    bv,       \* a BoundingVolumes
    data,     \* a BoundingVolumesData record
    written,  \* the offsets of data the last Pack stored to
    packed    \* the composite the last Pack read, if data comes from Pack

vars == <<kind, op, a, b, q, o, s, bv, data, written, packed>>

\* the runs that drive the AABBs, and those that drive the composite
AABBKinds == {"AABB", "AABB point"}
BVKinds == {"BoundingVolumes", "BoundingVolumes pair", "BoundingVolumes points"}

OBBKinds == {"OBB", "OBB pair"}

Kinds == AABBKinds \cup BVKinds \cup OBBKinds \cup {"BoundingSphere"}

NoQuery == [intersects |-> FALSE, intersectsRev |-> FALSE,
            distance |-> 0, distanceRev |-> 0, getIntersection |-> FALSE,
            intersection |-> AABBNew]

NotPacked == [valid |-> FALSE, v |-> BVNew]

\* the state after construction of a run that drives kind k
InitOf(k) ==
    /\ kind = k
    /\ op = "Construct"
    /\ a = AABBNew
    /\ b = AABBNew
    /\ q = NoQuery
    /\ o = OBBNew
    /\ s = SphereNew
    /\ bv = BVNew
    /\ data \in IF k = "BoundingVolumes" THEN Records ELSE {BlankRecord}
    /\ written = {}
    /\ packed = NotPacked

Init == \E k \in Kinds : InitOf(k)

\* ------------------------------------------------------------ AABB actions
A_Construct ==
    /\ kind \in AABBKinds
    /\ a' = AABBNew
    /\ op' = "AABB::AABB"
    /\ q' = NoQuery
    /\ UNCHANGED <<kind, b, o, s, bv, data, written, packed>>

A_SetCornerLength(c, l) ==
    /\ kind \in AABBKinds
    /\ a' = SetCornerLength(a, c, l)
    /\ op' = "AABB::SetCornerLength"
    /\ q' = NoQuery
    /\ UNCHANGED <<kind, b, o, s, bv, data, written, packed>>

A_SetMinMax(min_v, max_v) ==
    /\ kind \in AABBKinds
    /\ a' = SetMinMax(a, min_v, max_v)
    /\ op' = "AABB::SetMinMax"
    /\ q' = NoQuery
    /\ UNCHANGED <<kind, b, o, s, bv, data, written, packed>>

A_SetFromPoints(pts, count, component_count) ==
    /\ kind \in AABBKinds
    /\ a' = AABBSetFromPoints(a, pts, count, component_count)
    /\ op' = "AABB::SetFromPoints"
    /\ q' = [pts |-> pts, count |-> count, component_count |-> component_count]
    /\ UNCHANGED <<kind, b, o, s, bv, data, written, packed>>

A_Merge ==
    /\ kind \in AABBKinds
    /\ a' = AABBMerge(a, b)
    /\ op' = "AABB::Merge"
    /\ q' = NoQuery
    /\ UNCHANGED <<kind, b, o, s, bv, data, written, packed>>

A_ExpandToInclude(point) ==
    /\ kind \in AABBKinds
    /\ a' = AABBExpandToInclude(a, point)
    /\ op' = "AABB::ExpandToInclude"
    /\ q' = NoQuery
    /\ UNCHANGED <<kind, b, o, s, bv, data, written, packed>>

A_Clear ==
    /\ kind \in AABBKinds
    /\ a' = AABBClear(a)
    /\ op' = "AABB::Clear"
    /\ q' = NoQuery
    /\ UNCHANGED <<kind, b, o, s, bv, data, written, packed>>

\* the other box is set up
B_SetMinMax(min_v, max_v) ==
    /\ kind = "AABB"
    /\ b' = SetMinMax(b, min_v, max_v)
    /\ op' = "AABB::SetMinMax(other)"
    /\ q' = NoQuery
    /\ UNCHANGED <<kind, a, o, s, bv, data, written, packed>>

\* the pair queries of a against b, and of b against a
A_Query ==
    /\ kind = "AABB"
    /\ q' = [intersects |-> AABBIntersects(a, b),
             intersectsRev |-> AABBIntersects(b, a),
             distance |-> AABBDistance(a, b),
             distanceRev |-> AABBDistance(b, a),
             getIntersection |-> GetIntersection(a, b, AABBNew).ret,
             intersection |-> GetIntersection(a, b, AABBNew).intersection]
    /\ op' = "AABB::Query"
    /\ UNCHANGED <<kind, a, b, o, s, bv, data, written, packed>>

\* const queries of box a about a point
A_PointQuery(point) ==
    /\ kind = "AABB point"
    /\ q' = [point |-> point,
             containsPoint |-> AABBContainsPoint(a, point),
             closestPoint |-> ClosestPoint(a, point),
             distanceToPointSquared |-> DistanceToPointSquared(a, point),
             distanceToPoint |-> DistanceToPoint(a, point)]
    /\ op' = "AABB::PointQuery"
    /\ UNCHANGED <<kind, a, b, o, s, bv, data, written, packed>>

\* the three IntersectsRay overloads of box a, the out parameters starting at 0
A_IntersectsRay(ray) ==
    /\ kind = "AABB point"
    /\ q' = [ray |-> ray,
             intersectsRay |-> IntersectsRay(a, ray),
             withDistance |-> IntersectsRayDistance(a, ray, 0),
             withMinMax |-> IntersectsRayMinMax(a, ray)]
    /\ op' = "AABB::IntersectsRay"
    /\ UNCHANGED <<kind, a, b, o, s, bv, data, written, packed>>

\* box a is transformed into a new box
A_Transformed(m) ==
    /\ kind = "AABB point"
    /\ q' = [m |-> m, transformed |-> AABBTransformed(a, m)]
    /\ op' = "AABB::Transformed"
    /\ UNCHANGED <<kind, a, b, o, s, bv, data, written, packed>>

\* box a is converted to an OBB and back
A_ToOBB ==
    /\ kind = "AABB point"
    /\ q' = [toOBB |-> ToOBB(a), toAABB |-> ToAABB(ToOBB(a))]
    /\ op' = "ToOBB(aabb)"
    /\ UNCHANGED <<kind, a, b, o, s, bv, data, written, packed>>

\* a frustum set from mvp classifies the point of a box a with min = max, as a
\* point, as a sphere of radius 0 and as the box
A_PointIn(mvp) ==
    /\ kind = "AABB point"
    /\ a.minPoint = a.maxPoint
    /\ q' = [pl |-> SetMatrix(mvp),
             pointIn |-> PointIn(SetMatrix(mvp), a.minPoint),
             sphereIn |-> SphereIn(SetMatrix(mvp), a.minPoint, 0),
             boxIn |-> BoxIn(SetMatrix(mvp), a)]
    /\ op' = "Frustum::PointIn"
    /\ UNCHANGED <<kind, a, b, o, s, bv, data, written, packed>>

\* a frustum set from mvp classifies box a
A_BoxIn(mvp) ==
    /\ kind = "AABB point"
    /\ q' = [pl |-> SetMatrix(mvp), boxIn |-> BoxIn(SetMatrix(mvp), a)]
    /\ op' = "Frustum::BoxIn"
    /\ UNCHANGED <<kind, a, b, o, s, bv, data, written, packed>>

NextAABB ==
    \/ A_Construct
    \/ \E c \in CornerPts, l \in {Zero3, One3} : A_SetCornerLength(c, l)
    \/ \E min_v \in Pts, max_v \in Pts : A_SetMinMax(min_v, max_v)
    \/ \E c \in Cubes : A_SetMinMax(c[1], c[2])
    \/ \E ps \in Buffers, component_count \in {3, 4} :
          A_SetFromPoints(Flatten(ps, component_count), Len(ps), component_count)
    \/ \E count \in {0, 1} : A_SetFromPoints(NullPtr, count, 3)
    \/ A_Merge
    \/ \E point \in Pts : A_ExpandToInclude(point)
    \/ A_Clear
    \/ \E c \in OtherCorners \cup Cubes : B_SetMinMax(c[1], c[2])
    \/ A_Query
    \/ \E point \in QueryPts : A_PointQuery(point)
    \/ \E ray \in Rays : A_IntersectsRay(ray)
    \/ \E mvp \in MVPs : A_BoxIn(mvp)
    \/ \E mvp \in MVPs : A_PointIn(mvp)
    \/ \E m \in Matrices : A_Transformed(m)
    \/ A_ToOBB

\* ------------------------------------------------------------- OBB actions
O_Construct ==
    /\ kind \in OBBKinds
    /\ o' = OBBNew
    /\ op' = "OBB::OBB"
    /\ q' = NoQuery
    /\ UNCHANGED <<kind, a, b, s, bv, data, written, packed>>

O_Set(c, hl) ==
    /\ kind \in OBBKinds
    /\ o' = OBBSet(o, c, hl)
    /\ op' = "OBB::Set"
    /\ q' = NoQuery
    /\ UNCHANGED <<kind, a, b, s, bv, data, written, packed>>

O_SetAxes(c, a0, a1, a2, hl) ==
    /\ kind \in OBBKinds
    /\ o' = OBBSetAxes(o, c, a0, a1, a2, hl)
    /\ op' = "OBB::Set"
    /\ q' = NoQuery
    /\ UNCHANGED <<kind, a, b, s, bv, data, written, packed>>

O_ExpandToInclude(point) ==
    /\ kind = "OBB"
    /\ o' = OBBExpandToInclude(o, point)
    /\ op' = "OBB::ExpandToInclude"
    /\ q' = NoQuery
    /\ UNCHANGED <<kind, a, b, s, bv, data, written, packed>>

O_Merge(other) ==
    /\ kind = "OBB"
    /\ MergeOnGrid(o, other)
    /\ o' = OBBMerge(o, other)
    /\ op' = "OBB::Merge"
    /\ q' = NoQuery
    /\ UNCHANGED <<kind, a, b, s, bv, data, written, packed>>

O_Clear ==
    /\ kind \in OBBKinds
    /\ o' = OBBClear(o)
    /\ op' = "OBB::Clear"
    /\ q' = NoQuery
    /\ UNCHANGED <<kind, a, b, s, bv, data, written, packed>>

\* o = o.Transformed(m)
O_Transformed(m) ==
    /\ kind = "OBB"
    /\ LET transformed == OBBTransformed(o, m)
       IN InWindow(transformed) /\ o' = transformed
    /\ op' = "OBB::Transformed"
    /\ q' = NoQuery
    /\ UNCHANGED <<kind, a, b, s, bv, data, written, packed>>

\* const query of the box about a point
O_ContainsPoint(point) ==
    /\ kind = "OBB"
    /\ q' = [point |-> point, containsPoint |-> OBBContainsPoint(o, point)]
    /\ op' = "OBB::ContainsPoint"
    /\ UNCHANGED <<kind, a, b, o, s, bv, data, written, packed>>

\* the box is tested against a second OBB, and the second against it
O_Intersects(other) ==
    /\ kind = "OBB pair"
    /\ q' = [other |-> other,
             intersects |-> OBBIntersects(o, other),
             intersectsRev |-> OBBIntersects(other, o)]
    /\ op' = "OBB::Intersects"
    /\ UNCHANGED <<kind, a, b, o, s, bv, data, written, packed>>

\* the box is tested against an AABB, and the AABB against it
O_IntersectsAABB(aabb) ==
    /\ kind = "OBB pair"
    /\ q' = [aabb |-> aabb,
             intersectsAABB |-> OBBIntersectsAABB(o, aabb),
             intersectsOBB |-> AABBIntersectsOBB(aabb, o)]
    /\ op' = "OBB::IntersectsAABB"
    /\ UNCHANGED <<kind, a, b, o, s, bv, data, written, packed>>

\* the box is converted to an AABB
O_ToAABB ==
    /\ kind = "OBB"
    /\ q' = [toAABB |-> ToAABB(o)]
    /\ op' = "ToAABB(obb)"
    /\ UNCHANGED <<kind, a, b, o, s, bv, data, written, packed>>

NextOBB ==
    \/ O_Construct
    \/ \E c \in {Zero3, <<One, 0, 0>>}, hl \in HalfLens : O_Set(c, hl)
    \/ \E c \in {Zero3, <<One, 0, 0>>}, f \in Frames, hl \in HalfLens :
          O_SetAxes(c, f[1], f[2], f[3], hl)
    \/ \E point \in NearPts : O_ExpandToInclude(point)
    \/ \E other \in OtherOBBs : O_Merge(other)
    \/ O_Clear
    \/ \E m \in Matrices : O_Transformed(m)
    \/ \E point \in OBBQueryPts : O_ContainsPoint(point)
    \/ O_ToAABB
    \/ \E other \in PairOBBs : O_Intersects(other)
    \/ \E c \in PairCorners : O_IntersectsAABB(SetMinMax(AABBNew, c[1], c[2]))

\* -------------------------------------------------- BoundingSphere actions
S_Construct ==
    /\ kind = "BoundingSphere"
    /\ s' = SphereNew
    /\ op' = "BoundingSphere::BoundingSphere"
    /\ q' = NoQuery
    /\ UNCHANGED <<kind, a, b, o, bv, data, written, packed>>

S_Set(c, r) ==
    /\ kind = "BoundingSphere"
    /\ s' = SphereSet(s, c, r)
    /\ op' = "BoundingSphere::Set"
    /\ q' = NoQuery
    /\ UNCHANGED <<kind, a, b, o, bv, data, written, packed>>

S_Clear ==
    /\ kind = "BoundingSphere"
    /\ s' = SphereClear(s)
    /\ op' = "BoundingSphere::Clear"
    /\ q' = NoQuery
    /\ UNCHANGED <<kind, a, b, o, bv, data, written, packed>>

S_SetFromPoints(pts, count, component_count) ==
    /\ kind = "BoundingSphere"
    /\ s' = SphereSetFromPoints(s, pts, count, component_count)
    /\ op' = "BoundingSphere::SetFromPoints"
    /\ q' = [pts |-> pts, count |-> count, component_count |-> component_count]
    /\ UNCHANGED <<kind, a, b, o, bv, data, written, packed>>

S_ExpandToInclude(point) ==
    /\ kind = "BoundingSphere"
    /\ s' = SphereExpandToInclude(s, point)
    /\ op' = "BoundingSphere::ExpandToInclude"
    /\ q' = NoQuery
    /\ UNCHANGED <<kind, a, b, o, bv, data, written, packed>>

S_Merge(other) ==
    /\ kind = "BoundingSphere"
    /\ SphereMergeOnGrid(s, other)
    /\ s' = SphereMerge(s, other)
    /\ op' = "BoundingSphere::Merge"
    /\ q' = NoQuery
    /\ UNCHANGED <<kind, a, b, o, bv, data, written, packed>>

S_IntersectsRay(ray) ==
    /\ kind = "BoundingSphere"
    /\ q' = [ray |-> ray,
             intersectsRay |-> SphereIntersectsRay(s, ray, 0).ret,
             distance |-> SphereIntersectsRay(s, ray, 0).distance]
    /\ op' = "BoundingSphere::IntersectsRay"
    /\ UNCHANGED <<kind, a, b, o, s, bv, data, written, packed>>

\* a frustum set from mvp classifies the sphere
S_SphereIn(mvp) ==
    /\ kind = "BoundingSphere"
    /\ q' = [pl |-> SetMatrix(mvp), sphereIn |-> SphereIn(SetMatrix(mvp), s.center, s.radius)]
    /\ op' = "Frustum::SphereIn"
    /\ UNCHANGED <<kind, a, b, o, s, bv, data, written, packed>>

NextSphere ==
    \/ S_Construct
    \/ \E c \in NearPts, r \in Radii : S_Set(c, r)
    \/ S_Clear
    \/ \E ps \in Buffers, component_count \in {3, 4} :
          S_SetFromPoints(Flatten(ps, component_count), Len(ps), component_count)
    \/ \E count \in {0, 1} : S_SetFromPoints(NullPtr, count, 3)
    \/ \E point \in Pts : S_ExpandToInclude(point)
    \/ \E other \in OtherSpheres : S_Merge(other)
    \/ \E ray \in SphereRays : S_IntersectsRay(ray)
    \/ \E mvp \in SphereMVPs : S_SphereIn(mvp)

\* ------------------------------------------------- BoundingVolumes actions
BV_Construct ==
    /\ kind \in BVKinds
    /\ bv' = BVNew
    /\ op' = "BoundingVolumes::BoundingVolumes"
    /\ q' = NoQuery
    /\ UNCHANGED <<kind, a, b, o, s, data, written, packed>>

BV_Clear ==
    /\ kind \in BVKinds
    /\ bv' = BVClear(bv)
    /\ op' = "BoundingVolumes::Clear"
    /\ q' = NoQuery
    /\ UNCHANGED <<kind, a, b, o, s, data, written, packed>>

BV_SetFromAABB(min_v, max_v) ==
    /\ kind \in BVKinds
    /\ bv' = SetFromMinMax(bv, min_v, max_v)
    /\ op' = "BoundingVolumes::SetFromAABB"
    /\ q' = NoQuery
    /\ UNCHANGED <<kind, a, b, o, s, data, written, packed>>

\* the search of the OBB ends at one of the frames of least volume
BV_SetFromPoints(pts, count, component_count) ==
    /\ kind = "BoundingVolumes points"
    /\ \E frame \in Frames :
          /\ pts # NullPtr /\ count > 0 =>
                \A g \in Frames : FitVolume(frame, pts, count, component_count)
                                     <= FitVolume(g, pts, count, component_count)
          /\ bv' = BVSetFromPoints(bv, frame, pts, count, component_count).v
          /\ q' = [pts |-> pts, count |-> count, component_count |-> component_count,
                   ret |-> BVSetFromPoints(bv, frame, pts, count, component_count).ret]
    /\ op' = "BoundingVolumes::SetFromPoints"
    /\ UNCHANGED <<kind, a, b, o, s, data, written, packed>>

BV_Merge(other) ==
    /\ kind \in BVKinds
    /\ MergeOnGrid(bv.obb, other.obb)
    /\ bv' = BVMerge(bv, other)
    /\ op' = "BoundingVolumes::Merge"
    /\ q' = NoQuery
    /\ UNCHANGED <<kind, a, b, o, s, data, written, packed>>

BV_ExpandToInclude(point) ==
    /\ kind \in BVKinds
    /\ bv' = BVExpandToInclude(bv, point)
    /\ op' = "BoundingVolumes::ExpandToInclude"
    /\ q' = NoQuery
    /\ UNCHANGED <<kind, a, b, o, s, data, written, packed>>

\* bv.Pack(&data)
BV_Pack ==
    /\ kind = "BoundingVolumes"
    /\ data' = Pack(bv, data)
    /\ written' = {w[1] : w \in PackWrites(bv)}
    /\ packed' = [valid |-> TRUE, v |-> bv]
    /\ op' = "BoundingVolumes::Pack"
    /\ q' = NoQuery
    /\ UNCHANGED <<kind, a, b, o, s, bv>>

\* a record arrives from storage
BV_Receive(rec) ==
    /\ kind = "BoundingVolumes"
    /\ data' = rec
    /\ written' = {}
    /\ packed' = NotPacked
    /\ op' = "Receive"
    /\ q' = NoQuery
    /\ UNCHANGED <<kind, a, b, o, s, bv>>

\* data.To(&bv): the record is loaded into the composite, whatever it held
BV_To ==
    /\ kind = "BoundingVolumes"
    /\ bv' = To(data, bv)
    /\ op' = "BoundingVolumesData::To"
    /\ q' = NoQuery
    /\ UNCHANGED <<kind, a, b, o, s, data, written, packed>>

BV_Intersects(other) ==
    /\ kind = "BoundingVolumes pair"
    /\ q' = [other |-> other,
             calls |-> BVIntersects(bv, other).calls,
             intersects |-> BVIntersects(bv, other).ret]
    /\ op' = "BoundingVolumes::Intersects"
    /\ UNCHANGED <<kind, a, b, o, s, bv, data, written, packed>>

\* the points handed to BoundingVolumes::ExpandToInclude: two corners of the
\* unit box and, in the runs that go on to Intersects, a point above the middle
\* of the box [(0, 0, 0), (2, 1, 0)]
ExpandPts(k) ==
    IF k = "BoundingVolumes pair"
    THEN {<<One, 0, 0>>, <<0, 0, One>>, <<One, One \div 2, 2 * One>>}
    ELSE {<<One, 0, 0>>, <<0, 0, One>>}

NextBV ==
    \/ BV_Construct
    \/ BV_Clear
    \/ \E min_v \in {Zero3, <<One, 0, 0>>}, max_v \in HalfLens : BV_SetFromAABB(min_v, max_v)
    \/ \E ps \in Buffers, component_count \in {3, 4} :
          BV_SetFromPoints(Flatten(ps, component_count), Len(ps), component_count)
    \/ \E ps \in Buffers : BV_SetFromPoints(Flatten(ps, 3), 0, 3)
    \/ BV_SetFromPoints(NullPtr, 1, 3)
    \/ \E other \in OtherBVs : BV_Merge(other)
    \/ \E point \in ExpandPts(kind) : BV_ExpandToInclude(point)
    \/ BV_Pack
    \/ \E rec \in Records : BV_Receive(rec)
    \/ BV_To
    \/ \E other \in IntersectBVs : BV_Intersects(other)

\* --------------------------------------------------------- specifications
Next == NextAABB \/ NextOBB \/ NextSphere \/ NextBV

\* runs of every kind
Spec == Init /\ [][Next]_vars

\* the runs that drive the AABBs
InitAABB == \E k \in AABBKinds : InitOf(k)
SpecAABB == InitAABB /\ [][NextAABB]_vars

\* the runs that drive the OBB
InitOBB == \E k \in OBBKinds : InitOf(k)
SpecOBB == InitOBB /\ [][NextOBB]_vars

\* the runs that drive the sphere
SpecSphere == InitOf("BoundingSphere") /\ [][NextSphere]_vars

\* the runs that drive the composite and its record
InitBV == \E k \in BVKinds : InitOf(k)
SpecBV == InitBV /\ [][NextBV]_vars

\* ------------------------------------------------------------------ claims
\* the relations between the stored fields of an AABB
FieldsConsistent(box) ==
    /\ box.maxPoint = VAdd(box.minPoint, box.length)
    /\ VScale(box.center, 2) = VAdd(box.minPoint, box.maxPoint)

\* C1: after any sequence of AABB mutations (construction, SetCornerLength,
\* SetMinMax, SetFromPoints, Merge, ExpandToInclude, Clear) the stored fields
\* satisfy maxPoint = minPoint + length and center = (minPoint + maxPoint)/2 on
\* every axis.
C1_FieldsConsistent == FieldsConsistent(a) /\ FieldsConsistent(b)

\* C1 witness: a box grown by ExpandToInclude from the cleared box and then merged
C1_Witness ==
    /\ op = "AABB::Merge"
    /\ a.minPoint = Zero3
    /\ a.maxPoint = <<2 * One, One, 0>>
    /\ a.length = <<2 * One, One, 0>>

\* the plane of face i of an AABB, from minPoint and maxPoint alone: faces 1, 3, 5
\* lie at minPoint and faces 2, 4, 6 at maxPoint of the axis (i + 1) \div 2
DerivedAABBPlane(box, i) ==
    LET k == (i + 1) \div 2
    IN IF i % 2 = 1
       THEN [normal |-> AABBFaceNormal[i], d |-> box.minPoint[k]]
       ELSE [normal |-> AABBFaceNormal[i], d |-> -box.maxPoint[k]]

AABBPlanesFresh(box) == \A i \in 1..6 : box.planes[i] = DerivedAABBPlane(box, i)

\* what Clear leaves: zero corners and six zero planes
AABBZeroed(box) ==
    /\ box.minPoint = Zero3 /\ box.maxPoint = Zero3
    /\ \A i \in 1..6 : box.planes[i] = ZeroPlane

\* the plane of face i of an OBB, from center, axis and half_length alone: faces
\* 2k-1 and 2k lie at center +/- axis[k] * half_length[k]
DerivedOBBPlane(obb, i) ==
    LET k == (i + 1) \div 2
        sign == IF i % 2 = 1 THEN 1 ELSE -1
        n == VScale(obb.axis[k], sign)
    IN [normal |-> n,
        d |-> -(Dot(n, obb.center) + Dot(obb.axis[k], obb.axis[k]) * obb.half_length[k])]

OBBPlanesFresh(obb) == \A i \in 1..6 : obb.planes[i] = DerivedOBBPlane(obb, i)

\* C2 (amended): after every mutating call on an AABB other than Clear (and
\* SetFromPoints without points, which only clears) and after every mutating call
\* on an OBB (Set, ExpandToInclude, Merge, Clear), the six cached face planes equal
\* the planes derived from the current defining fields; AABB::Clear leaves six
\* zero planes next to zero corners.
C2_PlanesFreshOrCleared ==
    /\ \A box \in {a, b, bv.aabb} : AABBPlanesFresh(box) \/ AABBZeroed(box)
    /\ op \in {"AABB::AABB", "AABB::SetCornerLength", "AABB::SetMinMax", "AABB::Merge",
               "AABB::ExpandToInclude"} => AABBPlanesFresh(a)
    /\ op = "AABB::SetMinMax(other)" => AABBPlanesFresh(b)
    /\ \A obb \in {o, bv.obb} : OBBPlanesFresh(obb)

\* C2 witness: an OBB grown by ExpandToInclude carries the planes of its new extent
C2_Witness ==
    /\ op = "OBB::ExpandToInclude"
    /\ o.center = Zero3
    /\ o.half_length = <<One, 0, 0>>
    /\ o.planes[1] = [normal |-> <<1, 0, 0>>, d |-> -One]

\* C2 as stated: the cached planes of the AABBs and of the OBB equal the derived
\* planes after every mutating call, Clear included
C2_PlanesFreshAfterEveryCall ==
    AABBPlanesFresh(a) /\ AABBPlanesFresh(b) /\ OBBPlanesFresh(o)

\* three axes of unit length that are mutually orthogonal
Orthonormal(axis) ==
    \A i, j \in 1..3 : Dot(axis[i], axis[j]) = IF i = j THEN 1 ELSE 0

\* C3: in every OBB state reachable through construction, Set, ExpandToInclude,
\* Merge, Clear, Transformed and BoundingVolumesData::To the three axis vectors
\* are unit length and mutually orthogonal.
C3_AxesOrthonormal == Orthonormal(o.axis)

\* C4 (amended): a default-constructed AABB and OBB is each a canonical unit
\* volume that is not empty; a default-constructed BoundingSphere (radius -1) and
\* a default-constructed BoundingVolumes (its constructor calls Clear) are empty.
C4_DefaultVolumes ==
    /\ op \in {"Construct", "AABB::AABB"} =>
          ~AABBIsEmpty(a) /\ a.minPoint = Zero3 /\ a.maxPoint = One3
    /\ op \in {"Construct", "OBB::OBB"} =>
          ~OBBIsEmpty(o) /\ o.center = Zero3 /\ o.half_length = One3
    /\ op \in {"Construct", "BoundingSphere::BoundingSphere"} =>
          SphereIsEmpty(s) /\ s.radius = -One
    /\ op \in {"Construct", "BoundingVolumes::BoundingVolumes"} => BVIsEmpty(bv)

\* C4 witness: a composite was constructed anew while a packed record exists
C4_Witness ==
    /\ op = "BoundingVolumes::BoundingVolumes"
    /\ packed.valid
    /\ BVIsEmpty(bv)

\* C4 as stated: each of the four default-constructed volumes is not empty
C4_DefaultsNotEmpty ==
    /\ op \in {"Construct", "AABB::AABB"} => ~AABBIsEmpty(a)
    /\ op \in {"Construct", "OBB::OBB"} => ~OBBIsEmpty(o)
    /\ op \in {"Construct", "BoundingSphere::BoundingSphere"} => ~SphereIsEmpty(s)
    /\ op \in {"Construct", "BoundingVolumes::BoundingVolumes"} => ~BVIsEmpty(bv)

\* C5: after Clear(), whatever the previous state, IsEmpty() is true for AABB,
\* OBB, BoundingSphere and BoundingVolumes, and the sphere radius is exactly -1
\* both for a stand-alone BoundingSphere and for the bsphere of a cleared
\* BoundingVolumes.
C5_ClearedIsSentinel ==
    /\ op = "AABB::Clear" => AABBIsEmpty(a)
    /\ op = "OBB::Clear" => OBBIsEmpty(o)
    /\ op = "BoundingSphere::Clear" => SphereIsEmpty(s) /\ s.radius = -One
    /\ op = "BoundingVolumes::Clear" => BVIsEmpty(bv) /\ bv.bsphere.radius = -One

\* C6: BoundingVolumes::IsEmpty() is true exactly when aabb.IsEmpty(),
\* obb.IsEmpty() and bsphere.IsEmpty() are all true, in every reachable state,
\* those loaded through BoundingVolumesData::To included.
C6_IsEmptyIffAllEmpty ==
    BVIsEmpty(bv) = (AABBIsEmpty(bv.aabb) /\ OBBIsEmpty(bv.obb) /\ SphereIsEmpty(bv.bsphere))

\* the fields of a composite that the record carries
SameFields(x, y) ==
    /\ x.aabb.minPoint = y.aabb.minPoint /\ x.aabb.maxPoint = y.aabb.maxPoint
    /\ x.obb.center = y.obb.center /\ x.obb.axis = y.obb.axis
    /\ x.obb.half_length = y.obb.half_length
    /\ x.bsphere.center = y.bsphere.center /\ x.bsphere.radius = y.bsphere.radius

\* C7: bv.Pack(&data) followed by data.To(&bv2) gives bv2 whose aabb min/max, obb
\* center/axes/half-extents and sphere center/radius equal those of bv, and
\* Pack leaves bv unchanged.
C7_RoundTrip ==
    /\ (op = "BoundingVolumesData::To" /\ packed.valid) => SameFields(bv, packed.v)
    /\ op = "BoundingVolumes::Pack" => bv = packed.v

\* C7 witness: a composite set from a box with three different extents, grown by
\* a point, was packed, and the record was loaded into a composite
C7_Witness ==
    /\ op = "BoundingVolumesData::To"
    /\ packed.valid
    /\ packed.v.aabb.maxPoint = <<2 * One, One, One>>
    /\ bv.bsphere.radius > 0
    /\ bv.obb.axis[2] = <<0, 1, 0>>

\* the floats of a composite in the order of the record's fields
FieldsOf(v) ==
    v.aabb.minPoint \o v.aabb.maxPoint \o v.obb.center \o v.obb.axis[1] \o v.obb.axis[2]
    \o v.obb.axis[3] \o v.obb.half_length \o v.bsphere.center \o <<v.bsphere.radius>>

\* what C8 says of a record of n floats
RecordOf(n) ==
    /\ RecordFloats = n
    /\ Len(data) = n
    /\ op = "BoundingVolumes::Pack" => written = 1..n /\ data = FieldsOf(bv)
    /\ op = "BoundingVolumesData::To" => FieldsOf(bv) = data

\* C8 (amended): the BoundingVolumesData record is a fixed record of exactly 25
\* floats made of the fields aabbMin, aabbMax, obbCenter, obbAxisX, obbAxisY,
\* obbAxisZ, obbHalfSize, sphereCenter (3 floats each) and sphereRadius (1 float),
\* and Pack writes (and To reads) every float of the record.
C8_RecordIs25Floats == RecordOf(25)

\* C8 witness: Pack stored a composite with a positive radius over a received record
C8_Witness ==
    /\ op = "BoundingVolumes::Pack"
    /\ written = 1..25
    /\ data[25] > 0
    /\ data[4] = One

\* C8 as stated: a record of exactly 36 floats
C8_RecordIs36Floats == RecordOf(36)

\* a box whose minPoint is not above its maxPoint on any axis
ValidBox(box) == \A i \in 1..3 : box.minPoint[i] <= box.maxPoint[i]

\* two valid boxes that share the point MaxVector(min, min) and have a face plane
\* in common on some axis
Touching(x, y) ==
    /\ ValidBox(x) /\ ValidBox(y)
    /\ AABBContainsPoint(x, MaxVector(x.minPoint, y.minPoint))
    /\ AABBContainsPoint(y, MaxVector(x.minPoint, y.minPoint))
    /\ \E i \in 1..3 : x.maxPoint[i] = y.minPoint[i] \/ y.maxPoint[i] = x.minPoint[i]

\* C9: AABB::Intersects is symmetric, a.Intersects(b) = b.Intersects(a) for all
\* boxes a and b, and boxes that only touch on a face, edge or corner intersect.
C9_IntersectsSymmetric ==
    op = "AABB::Query" =>
        /\ q.intersects = q.intersectsRev
        /\ Touching(a, b) => q.intersects

\* C9 witness: two unit boxes that touch on a face were queried
C9_Witness ==
    /\ op = "AABB::Query"
    /\ Touching(a, b)
    /\ a.length = One3 /\ b.length = One3
    /\ a.minPoint[1] = b.maxPoint[1]
    /\ q.intersects

\* the gap between two boxes on axis i
Gap(x, y, i) ==
    Max2(0, Max2(y.minPoint[i] - x.maxPoint[i], x.minPoint[i] - y.maxPoint[i]))

\* what C10 says of a queried pair of disjoint boxes
DisjointDistance ==
    /\ q.distance = q.distanceRev
    /\ q.distance > 0
    /\ q.distance = Length(<<Gap(a, b, 1), Gap(a, b, 2), Gap(a, b, 3)>>)
    /\ ~q.getIntersection

\* C10 (amended): for all disjoint AABBs a and b whose minPoint is not above
\* their maxPoint on any axis, a.Distance(b) = b.Distance(a), the distance is
\* strictly positive and is the Euclidean length of the per-axis gaps, and
\* a.GetIntersection(b, out) returns false; for overlapping boxes Distance is 0.
C10_DistanceOfValidBoxes ==
    op = "AABB::Query" =>
        /\ q.intersects => q.distance = 0
        /\ (ValidBox(a) /\ ValidBox(b) /\ ~q.intersects) => DisjointDistance

\* C10 witness: two valid boxes with a gap on two axes were queried
C10_Witness ==
    /\ op = "AABB::Query"
    /\ ValidBox(a) /\ ValidBox(b)
    /\ ~q.intersects
    /\ Gap(a, b, 1) > 0 /\ Gap(a, b, 2) > 0

\* C10 as stated, for all disjoint boxes: violated by boxes that SetMinMax was
\* handed with min above max
C10_DistanceOfAllBoxes ==
    op = "AABB::Query" =>
        /\ q.intersects => q.distance = 0
        /\ ~q.intersects => DisjointDistance

\* what C11 says of a queried pair of intersecting boxes
IntersectionIsOverlap ==
    /\ q.getIntersection
    /\ \A i \in 1..3 :
          /\ q.intersection.minPoint[i] = Max2(a.minPoint[i], b.minPoint[i])
          /\ q.intersection.maxPoint[i] = Min2(a.maxPoint[i], b.maxPoint[i])
    /\ AABBContains(a, q.intersection) /\ AABBContains(b, q.intersection)
    /\ ValidBox(q.intersection)

\* C11 (amended): when two AABBs a and b whose minPoint is not above their
\* maxPoint on any axis intersect, a.GetIntersection(b, out) returns true and
\* sets out to min = component-wise max of the two mins and max = component-wise
\* min of the two maxes; out is contained in both a and b and satisfies
\* out.min <= out.max on every axis.
C11_IntersectionOfValidBoxes ==
    (op = "AABB::Query" /\ ValidBox(a) /\ ValidBox(b) /\ q.intersects)
        => IntersectionIsOverlap

\* C11 witness: [(0,0,0),(2,2,2)] queried against [(1,1,1),(3,3,3)] gave
\* [(1,1,1),(2,2,2)]
C11_Witness ==
    /\ op = "AABB::Query"
    /\ a.minPoint = Zero3 /\ a.maxPoint = <<2 * One, 2 * One, 2 * One>>
    /\ b.minPoint = One3 /\ b.maxPoint = <<3 * One, 3 * One, 3 * One>>
    /\ q.getIntersection
    /\ q.intersection.minPoint = One3
    /\ q.intersection.maxPoint = <<2 * One, 2 * One, 2 * One>>

\* C11 as stated, for all intersecting boxes: violated by a box that SetMinMax
\* was handed with min above max
C11_IntersectionOfAllBoxes ==
    (op = "AABB::Query" /\ q.intersects) => IntersectionIsOverlap

\* point lies within the bounds of box on every axis and on one of its faces
OnBoundary(box, point) ==
    /\ \A i \in 1..3 : box.minPoint[i] <= point[i] /\ point[i] <= box.maxPoint[i]
    /\ \E i \in 1..3 : point[i] = box.minPoint[i] \/ point[i] = box.maxPoint[i]

\* C12: for every AABB a and point p, a.ContainsPoint(p) implies
\* a.DistanceToPoint(p) = 0 (ClosestPoint(p) is p itself), and the boundary of
\* the box counts as contained.
C12_ContainedPointAtDistanceZero ==
    op = "AABB::PointQuery" =>
        /\ q.containsPoint =>
              /\ q.closestPoint = q.point
              /\ q.distanceToPointSquared = 0
              /\ q.distanceToPoint = 0
        /\ OnBoundary(a, q.point) => q.containsPoint

\* C12 witness: a point on a face of a box with room on every axis, other than
\* its min corner, was found contained at distance 0
C12_Witness ==
    /\ op = "AABB::PointQuery"
    /\ q.containsPoint /\ q.distanceToPoint = 0
    /\ \A i \in 1..3 : a.minPoint[i] < a.maxPoint[i]
    /\ OnBoundary(a, q.point) /\ q.point # a.minPoint

\* the axes an OBB is constructed with
IdentityAxes == << <<1, 0, 0>>, <<0, 1, 0>>, <<0, 0, 1>> >>

\* the AABB with corners center - half_length and center + half_length
BoxOf(obb) ==
    SetMinMax(AABBNew, VSub(obb.center, obb.half_length),
                       VAdd(obb.center, obb.half_length))

\* C13: for every OBB with identity axes, center c and half-extent h, and every
\* point p, obb.ContainsPoint(p) equals AABB(c-h, c+h).ContainsPoint(p).
C13_IdentityOBBIsAABB ==
    (op = "OBB::ContainsPoint" /\ o.axis = IdentityAxes)
        => q.containsPoint = AABBContainsPoint(BoxOf(o), q.point)

\* C13 witness: a point on a face of an identity-axes box with room on every
\* axis was found contained by both
C13_Witness ==
    /\ op = "OBB::ContainsPoint" /\ o.axis = IdentityAxes
    /\ \A i \in 1..3 : o.half_length[i] > 0
    /\ \E i \in 1..3 : Abs(q.point[i] - o.center[i]) = o.half_length[i]
    /\ q.containsPoint /\ AABBContainsPoint(BoxOf(o), q.point)

\* the largest ray parameter looked at, in units of 1 / One
MaxT == 20

\* origin + t * direction
RayPoint(ray, t) == [i \in 1..3 |-> ray.origin[i] + (t * ray.direction[i]) \div One]

\* the ray parameters t >= 0 that put the ray inside the box
HitTs(box, ray) == {t \in 0..MaxT : AABBContainsPoint(box, RayPoint(ray, t))}

\* the least number of a non-empty set of numbers
Least(S) == CHOOSE x \in S : \A y \in S : x <= y

\* C14: for every AABB with min <= max and every ray, the three
\* AABB::IntersectsRay variants return the same boolean, which is true exactly
\* when some t >= 0 puts origin + t*direction inside the box; the reported
\* distance is the smallest such t (0 when the origin is already inside).
C14_RayVariantsAgree ==
    (op = "AABB::IntersectsRay" /\ ValidBox(a)) =>
        /\ q.withDistance.ret = q.intersectsRay
        /\ q.withMinMax.ret = q.intersectsRay
        /\ q.intersectsRay = (HitTs(a, q.ray) # {})
        /\ q.intersectsRay =>
              /\ q.withDistance.distance = Least(HitTs(a, q.ray))
              /\ q.withMinMax.t_min = Least(HitTs(a, q.ray))
              /\ AABBContainsPoint(a, q.ray.origin) => q.withDistance.distance = 0

\* C14 witness: the ray from (-5,0,0) along (1,0,0) hit [(-1,-1,-1),(1,1,1)]
\* at t = 4
C14_Witness ==
    /\ op = "AABB::IntersectsRay"
    /\ a.minPoint = VNeg(One3) /\ a.maxPoint = One3
    /\ q.ray = [origin |-> <<-5 * One, 0, 0>>, direction |-> <<One, 0, 0>>]
    /\ q.intersectsRay /\ q.withDistance.ret /\ q.withMinMax.ret
    /\ q.withDistance.distance = 4 * One

\* the order of the cascade
Cascade == <<"IntersectsFast", "IntersectsAABB", "IntersectsOBB">>

\* C15: BoundingVolumes::Intersects(other) applies the cascade sphere -> AABB ->
\* OBB in that order: the AABB test is evaluated only after the sphere test
\* passed, the OBB test only after both passed, the first failing test yields
\* false, and the result is true exactly when bsphere.Intersects,
\* aabb.Intersects and obb.Intersects are all true.
C15_CascadeOrder ==
    op = "BoundingVolumes::Intersects" =>
        LET sphereTest == SphereIntersects(bv.bsphere, q.other.bsphere)
            boxTest == AABBIntersects(bv.aabb, q.other.aabb)
            obbTest == OBBIntersects(bv.obb, q.other.obb)
        IN /\ q.calls = SubSeq(Cascade, 1, Len(q.calls)) /\ Len(q.calls) >= 1
           /\ Len(q.calls) >= 2 <=> sphereTest
           /\ Len(q.calls) >= 3 <=> (sphereTest /\ boxTest)
           /\ q.intersects <=> (sphereTest /\ boxTest /\ obbTest)

\* C15 witness: the sphere and AABB tests passed and the OBB test, evaluated
\* last, rejected
C15_Witness ==
    /\ op = "BoundingVolumes::Intersects"
    /\ q.calls = Cascade
    /\ ~q.intersects
    /\ SphereIntersects(bv.bsphere, q.other.bsphere)
    /\ AABBIntersects(bv.aabb, q.other.aabb)

\* plane i of the frustum has the P-vertex (N-vertex) of the box behind it
PVertexBehind(pl, box, i) == PlaneDistance(pl[i], GetVertexP(box, pl[i].normal)) < 0
NVertexBehind(pl, box, i) == PlaneDistance(pl[i], GetVertexN(box, pl[i].normal)) < 0

\* the eight corners of a box
BoxCorners(box) ==
    {<<x, y, z>> : x \in {box.minPoint[1], box.maxPoint[1]},
                   y \in {box.minPoint[2], box.maxPoint[2]},
                   z \in {box.minPoint[3], box.maxPoint[3]}}

RayReaches(sphere, ray) ==
    LET m == VSub(ray.origin, sphere.center)
        md == Dot(m, ray.direction)
        c == Dot(m, m) - sphere.radius * sphere.radius
    IN /\ sphere.radius >= 0
       /\ IF md >= 0 THEN c <= 0
          ELSE c * Dot(ray.direction, ray.direction) <= md * md

\* C17: BoundingSphere::IntersectsRay returns true exactly when some t >= 0 puts
\* origin + t*direction within the sphere (distance to center <= radius), for
\* every ray whose direction is any non-zero vector, not only unit-length
\* directions; the reported distance is 0 when the origin lies inside the
\* sphere. Stated for spheres that are not empty.
C17_RayHitsSphere ==
    (op = "BoundingSphere::IntersectsRay" /\ ~SphereIsEmpty(s)
                                          /\ q.ray.direction # Zero3) =>
        /\ q.intersectsRay <=> RayReaches(s, q.ray)
        /\ SphereContainsPoint(s, q.ray.origin) => q.distance = 0

\* the point is within the sphere: its distance to the center is at most the
\* radius
Within(sphere, p) ==
    sphere.radius >= 0
    /\ Dot(VSub(p, sphere.center), VSub(p, sphere.center)) <= sphere.radius * sphere.radius

\* what C18 says of a call ExpandToInclude(point) that takes the sphere from
\* before to after
ExpandOnlyGrows(before, after, point) ==
    /\ after.center = before.center
    /\ after.radius = Max2(before.radius, Length(VSub(point, before.center)))
    /\ Within(after, point)
    /\ \A p \in Pts : Within(before, p) => Within(after, p)

\* C18: BoundingSphere::ExpandToInclude(point) never changes the center and
\* changes the radius only to max(radius, |point - center|); consequently, from
\* any state (including the Clear() state), the sphere contains the point passed
\* and everything it contained before.
C18_ExpandNeverRecenters ==
    [][\A point \in Pts : S_ExpandToInclude(point) => ExpandOnlyGrows(s, s', point)]_vars

\* what C19 says of a call Merge(other) that takes the box from before to after
MergedIsEnvelope(before, other, after) ==
    /\ after.axis = IdentityAxes
    /\ after.center = VHalf(VAdd(MergeBounds(before, other).min_pt,
                                 MergeBounds(before, other).max_pt))
    /\ after.half_length = VHalf(VSub(MergeBounds(before, other).max_pt,
                                      MergeBounds(before, other).min_pt))
    /\ \A i \in 1..8 : /\ OBBContainsPoint(after, GetCorners(before)[i])
                        /\ OBBContainsPoint(after, GetCorners(other)[i])

\* C19: after a.Merge(b) on OBBs, a has identity orientation and its
\* center/half-extents describe the axis-aligned envelope of the 16 world
\* corners of the old a and of b, so a.ContainsPoint holds for each of those 16
\* corners, for any orientation of the old a.
C19_MergeIsIdentityEnvelope ==
    [][\A other \in OtherOBBs : O_Merge(other) => MergedIsEnvelope(o, other, o')]_vars

\* what C20 says of a call Merge(other) that takes the sphere from before to
\* after
MergedIsMinimal(before, other, after) ==
    IF SphereIsEmpty(other) THEN after = before
    ELSE IF SphereIsEmpty(before) THEN after = other
    ELSE IF SphereContains(before, other) THEN after = before
    ELSE IF SphereContains(other, before) THEN after = other
    ELSE LET d == VSub(other.center, before.center)
             dist == Length(d)
         IN /\ 2 * after.radius = dist + before.radius + other.radius
            /\ VScale(VSub(after.center, before.center), dist)
                  = VScale(d, after.radius - before.radius)
            /\ SphereContains(after, before) /\ SphereContains(after, other)

\* C20: BoundingSphere::Merge(other) leaves this sphere as the minimal sphere
\* enclosing both inputs: if one sphere already contains the other the result is
\* the containing sphere unchanged; otherwise the new radius is
\* (dist + r1 + r2)/2 with the center moved along the center-to-center line, and
\* afterwards the result Contains() both the old this and other. Merging an empty
\* sphere is a no-op and merging into an empty sphere copies other.
C20_MergeIsMinimalSphere ==
    [][\A other \in OtherSpheres : S_Merge(other) => MergedIsMinimal(s, other, s')]_vars

\* C20 witness: two unit spheres one unit apart were merged into the sphere of
\* radius 1.5 centred between them
C20_Witness ==
    /\ op = "BoundingSphere::Merge"
    /\ s.radius = One + Half(One)
    /\ s.center \in {<<Half(One), 0, 0>>, <<0, Half(One), 0>>, <<0, 0, Half(One)>>}

\* the images under m of the eight corners of a box
CornerImages(box, m) == {MatPoint(m, c) : c \in BoxCorners(box)}

\* the largest member of a set of numbers
Most(S) == CHOOSE x \in S : \A y \in S : y <= x

\* C21: AABB::Transformed(m) returns a new box whose min and max are the
\* component-wise min and max of the images under m of the 8 corners of the
\* original box, so that it contains those images, for every box, the boxes
\* of zero extent away from the origin included; the original box is left as
\* it was.
C21_TransformedBoundsImages ==
    op = "AABB::Transformed" =>
        \A k \in 1..3 :
            /\ q.transformed.minPoint[k] = Least({p[k] : p \in CornerImages(a, q.m)})
            /\ q.transformed.maxPoint[k] = Most({p[k] : p \in CornerImages(a, q.m)})

\* the box holds the 8 corners and each of its six faces goes through one of them
TightAround(box, corners) ==
    \A k \in 1..3 :
        /\ box.minPoint[k] = Least({corners[i][k] : i \in 1..8})
        /\ box.maxPoint[k] = Most({corners[i][k] : i \in 1..8})

\* C22: ToAABB(obb) is the tightest axis-aligned box around the OBB, holding
\* its 8 corners with each of its six faces through at least one of them, and
\* ToOBB(aabb) is an identity-oriented copy, so that ToAABB(ToOBB(a)) has the
\* min and the max of a for every AABB a, the boxes of zero extent away from
\* the origin included.
C22_ConversionsAreTight ==
    /\ op = "ToAABB(obb)" => TightAround(q.toAABB, GetCorners(o))
    /\ op = "ToOBB(aabb)" =>
          /\ q.toOBB.axis = IdentityAxes
          /\ q.toAABB.minPoint = a.minPoint
          /\ q.toAABB.maxPoint = a.maxPoint

\* the last SetFromPoints was handed no points
NoPoints == q.pts = NullPtr \/ q.count = 0

\* coordinate k of the points the last SetFromPoints was handed
Coordinates(k) == {BufPoint(q.pts, i, q.component_count)[k] : i \in 0..(q.count - 1)}

\* C23: SetFromPoints called with a null pointer or with count 0 discards the
\* previous contents and leaves the volume empty (IsEmpty() true) for AABB,
\* BoundingSphere and BoundingVolumes, and BoundingVolumes::SetFromPoints
\* returns false in exactly that case; with count >= 1 AABB::SetFromPoints sets
\* min and max to the component-wise min and max of the first three floats of
\* each record of the strided buffer.
C23_SetFromPointsWithoutPoints ==
    /\ op = "AABB::SetFromPoints" =>
          IF NoPoints THEN AABBIsEmpty(a) /\ a = AABBClear(AABBNew)
          ELSE \A k \in 1..3 : /\ a.minPoint[k] = Least(Coordinates(k))
                               /\ a.maxPoint[k] = Most(Coordinates(k))
    /\ op = "BoundingSphere::SetFromPoints" /\ NoPoints =>
          SphereIsEmpty(s) /\ s = SphereClear(SphereNew)
    /\ op = "BoundingVolumes::SetFromPoints" =>
          /\ q.ret = FALSE <=> NoPoints
          /\ NoPoints => BVIsEmpty(bv) /\ bv = BVClear(BVNew)

\* C23 witness: a composite was handed a buffer and the count 0
C23_Witness ==
    /\ op = "BoundingVolumes::SetFromPoints"
    /\ q.pts # NullPtr /\ q.count = 0
    /\ q.ret = FALSE
    /\ BVIsEmpty(bv)

\* the grid points around the boxes of the runs that test pairs
PairWindow == {<<x, y, z>> : x \in (-2 * One)..(3 * One), y \in (-2 * One)..(2 * One),
                             z \in (-One)..One}

\* the two boxes have a point in common. Boxes whose faces lie on the grid and
\* along the world axes have a grid point in common when they have any
SharePoint(x, y) == \E p \in PairWindow : OBBContainsPoint(x, p) /\ OBBContainsPoint(y, p)

SharePointWithAABB(x, box) ==
    \E p \in PairWindow : OBBContainsPoint(x, p) /\ AABBContainsPoint(box, p)

\* no half-extent of the box is below zero
Solid(obb) == \A i \in 1..3 : obb.half_length[i] >= 0

\* C24, for boxes without a half-extent below zero: for OBBs with orthonormal
\* axes, OBB::Intersects is symmetric and returns true exactly when the two
\* boxes share at least one point; for two identity-oriented OBBs it agrees
\* with AABB::Intersects on the corresponding boxes; and OBB::IntersectsAABB
\* and AABB::IntersectsOBB never return false for a pair of boxes that shares
\* a point.
C24_SATIsExactForSolidBoxes ==
    /\ op = "OBB::Intersects" /\ Orthonormal(o.axis) /\ Orthonormal(q.other.axis)
          /\ Solid(o) /\ Solid(q.other) =>
             /\ q.intersects = q.intersectsRev
             /\ q.intersects <=> SharePoint(o, q.other)
             /\ o.axis = IdentityAxes /\ q.other.axis = IdentityAxes =>
                   (q.intersects <=> AABBIntersects(BoxOf(o), BoxOf(q.other)))
    /\ op = "OBB::IntersectsAABB" /\ Orthonormal(o.axis)
          /\ SharePointWithAABB(o, q.aabb) =>
             q.intersectsAABB /\ q.intersectsOBB

\* C24 witness: two boxes in different frames that share no point were tested
C24_Witness ==
    /\ op = "OBB::Intersects"
    /\ Orthonormal(o.axis) /\ Orthonormal(q.other.axis)
    /\ Solid(o) /\ Solid(q.other)
    /\ o.axis # q.other.axis
    /\ ~OBBIsEmpty(o)
    /\ ~q.intersects /\ ~SharePoint(o, q.other)

\* C24: for OBBs with orthonormal axes, OBB::Intersects is symmetric and returns
\* true exactly when the two boxes share at least one point; for two
\* identity-oriented OBBs it agrees with AABB::Intersects on the corresponding
\* boxes; and OBB::IntersectsAABB and AABB::IntersectsOBB never return false for
\* a pair of boxes that shares a point.
C24_SATIsExact ==
    /\ op = "OBB::Intersects" /\ Orthonormal(o.axis) /\ Orthonormal(q.other.axis) =>
          /\ q.intersects = q.intersectsRev
          /\ q.intersects <=> SharePoint(o, q.other)
          /\ o.axis = IdentityAxes /\ q.other.axis = IdentityAxes =>
                (q.intersects <=> AABBIntersects(BoxOf(o), BoxOf(q.other)))
    /\ op = "OBB::IntersectsAABB" /\ Orthonormal(o.axis)
          /\ SharePointWithAABB(o, q.aabb) =>
             q.intersectsAABB /\ q.intersectsOBB

\* two boxes with the same min and max
SameMinMax(x, y) == x.minPoint = y.minPoint /\ x.maxPoint = y.maxPoint

\* the boxes a merge sequence is continued with
ThirdBoxes == {SetMinMax(AABBNew, c[1], c[2]) : c \in Cubes}

\* after is the union bound of before and other: it contains both, each of its
\* faces lies on a face of one of them, it has the min and max of before
\* exactly when before contains other, and a third box can be merged in before
\* or after other
MergedIsUnion(before, other, after) ==
    /\ AABBContains(after, before) /\ AABBContains(after, other)
    /\ \A k \in 1..3 :
          /\ after.minPoint[k] \in {before.minPoint[k], other.minPoint[k]}
          /\ after.maxPoint[k] \in {before.maxPoint[k], other.maxPoint[k]}
    /\ SameMinMax(after, before) <=> AABBContains(before, other)
    /\ \A third \in ThirdBoxes :
          SameMinMax(AABBMerge(after, third), AABBMerge(AABBMerge(before, third), other))

\* C25, with a.Merge(a) keeping every field of a unless a is in the Clear()
\* state and its min and max in any case: AABB::Merge is a union bound: after
\* a.Merge(b) with both boxes having min <= max, a contains the old a and b and
\* is the smallest such box; the final min and max after merging a set of boxes
\* do not depend on the merge order, and a.Merge(b) leaves the min and max of a
\* unchanged exactly when a.Contains(b).
C25_MergeIsUnionBound ==
    [][A_Merge /\ ValidBox(a) /\ ValidBox(b) =>
          /\ MergedIsUnion(a, b, a')
          /\ SameMinMax(AABBMerge(a, a), a)
          /\ a # AABBClear(a) => AABBMerge(a, a) = a
          /\ AABBMerge(a', a') = a']_vars

\* C25 witness: a merge left a box that reaches below a valid, non-empty b on
\* one axis and above it on another, and has a face of b
C25_Witness ==
    /\ op = "AABB::Merge"
    /\ ValidBox(a) /\ ValidBox(b) /\ ~AABBIsEmpty(b)
    /\ AABBContains(a, b)
    /\ \E i \in 1..3 : a.minPoint[i] < b.minPoint[i]
    /\ \E i \in 1..3 : a.maxPoint[i] > b.maxPoint[i]
    /\ \E i \in 1..3 : a.maxPoint[i] = b.maxPoint[i] /\ a.minPoint[i] < a.maxPoint[i]

\* C25 as stated: AABB::Merge is a union bound: after a.Merge(b) with both boxes
\* having min <= max, a contains the old a and b and is the smallest such box;
\* Merge is idempotent (a.Merge(a) changes nothing), the final min and max after
\* merging a set of boxes do not depend on the merge order, and a.Merge(b)
\* leaves the min and max of a unchanged exactly when a.Contains(b).
C25_MergeChangesNothingOnItself ==
    [][A_Merge /\ ValidBox(a) /\ ValidBox(b) =>
          /\ MergedIsUnion(a, b, a')
          /\ AABBMerge(a, a) = a
          /\ AABBMerge(a', a') = a']_vars

\* the six planes taken in the order perm
Reordered(pl, perm) == [i \in 1..6 |-> pl[perm[i]]]

\* C26: Frustum::SphereIn(center, radius) with radius >= 0 returns OUTSIDE
\* exactly when some plane has signed distance < -radius, INSIDE exactly when
\* all six planes have signed distance >= radius, and INTERSECT otherwise; the
\* result does not depend on the order of the six planes.
C26_SphereInByDistances ==
    op = "Frustum::SphereIn" /\ s.radius >= 0 =>
        /\ q.sphereIn = "OUTSIDE" <=>
              \E i \in 1..6 : PlaneDistance(q.pl[i], s.center) < -s.radius
        /\ q.sphereIn = "INSIDE" <=>
              \A i \in 1..6 : PlaneDistance(q.pl[i], s.center) >= s.radius
        /\ q.sphereIn \in {"OUTSIDE", "INSIDE", "INTERSECT"}
        /\ \A perm \in Permutations(1..6) :
              SphereIn(Reordered(q.pl, perm), s.center, s.radius) = q.sphereIn

\* C26 witness: a sphere that crosses an earlier plane and lies wholly behind a
\* later one was classified OUTSIDE
C26_Witness ==
    /\ op = "Frustum::SphereIn"
    /\ s.radius > 0
    /\ q.sphereIn = "OUTSIDE"
    /\ \E i \in 1..6, j \in 1..6 :
          /\ j < i
          /\ PlaneDistance(q.pl[j], s.center) < s.radius
          /\ PlaneDistance(q.pl[j], s.center) >= -s.radius
          /\ PlaneDistance(q.pl[i], s.center) < -s.radius

\* the sphere of v reaches every corner of the box of v, to within the rounding
\* of a length to the grid
Nested(v) ==
    \A c \in BoxCorners(v.aabb) : Length(VSub(c, v.bsphere.center)) <= v.bsphere.radius

\* v is what SetFromAABB makes of a box with min <= max and some extent
BuiltFromAABB(v) ==
    ValidBox(v.aabb) /\ v.bsphere.radius > 0 /\ v = SetFromAABB(v, v.aabb)

\* C27: after BoundingVolumes::SetFromAABB(box) the sphere contains all 8
\* corners of the box, and ExpandToInclude(point) on a composite built by
\* SetFromAABB leaves the sphere containing all 8 corners of the grown box.
C27_SphereHoldsBoxCorners ==
    [][/\ op' = "BoundingVolumes::SetFromAABB" /\ ValidBox(bv'.aabb) => Nested(bv')
       /\ op' = "BoundingVolumes::ExpandToInclude" /\ BuiltFromAABB(bv) => Nested(bv')]_vars

\* C28: the empty AABB is the identity of accumulation: Clear() followed by
\* ExpandToInclude(p) yields the min/max of SetFromPoints over p alone, and
\* Clear() followed by Merge(b) yields the min/max of b.
C28_ClearedBoxIsIdentity ==
    [][op = "AABB::Clear" =>
          /\ op' = "AABB::ExpandToInclude" =>
                \A point \in Pts :
                    a' = AABBExpandToInclude(a, point) =>
                        SameMinMax(a', AABBSetFromPoints(a, point, 1, 3))
          /\ op' = "AABB::Merge" => SameMinMax(a', b)]_vars

\* C29: a volume in the Clear() state is the empty set in queries:
\* ContainsPoint(p) of a cleared AABB, OBB, BoundingSphere and BoundingVolumes
\* is false for every point p, and a cleared BoundingSphere intersects no
\* sphere.
C29_ClearedVolumesHoldNoPoint ==
    /\ op = "AABB::PointQuery" /\ a = AABBClear(a) => ~q.containsPoint
    /\ op = "OBB::ContainsPoint" /\ o = OBBClear(o) => ~q.containsPoint
    /\ op = "BoundingSphere::Clear" =>
          /\ \A p \in Pts : ~SphereContainsPoint(s, p)
          /\ \A other \in OtherSpheres : ~SphereIntersects(s, other)
    /\ op = "BoundingVolumes::Clear" => \A p \in Pts : ~BVContainsPoint(bv, p)

\* C30: for a frustum and a point p, PointIn(p), SphereIn(p, 0) and BoxIn of
\* the box with min = max = p return the same Scope, which is OUTSIDE exactly
\* when some plane has a negative signed distance to p and INSIDE otherwise,
\* never INTERSECT.
C30_PointTestsAgree ==
    op = "Frustum::PointIn" =>
        /\ q.pointIn = q.sphereIn
        /\ q.pointIn = q.boxIn
        /\ q.boxIn = "OUTSIDE" <=> \E i \in 1..6 : PlaneDistance(q.pl[i], a.minPoint) < 0
        /\ q.boxIn # "OUTSIDE" => q.boxIn = "INSIDE"

\* C30 witness: a point lying exactly on a plane of the frustum, and behind
\* none, was classified INSIDE by the three tests
C30_Witness ==
    /\ op = "Frustum::PointIn"
    /\ \E i \in 1..6 : PlaneDistance(q.pl[i], a.minPoint) = 0
    /\ \A i \in 1..6 : PlaneDistance(q.pl[i], a.minPoint) >= 0
    /\ q.pointIn = "INSIDE" /\ q.sphereIn = "INSIDE" /\ q.boxIn = "INSIDE"

====
